---- MODULE Spec2Model ----
(***************************************************************************)
(* Model of the chunking pipeline of src/src/chunking.py (ChunkingEngine), *)
(* of the record building of src/src/ingest.py (ingest_directory) and of   *)
(* the retrieval fusion of src/src/agent_tools.py (QueryEngine).           *)
(*                                                                         *)
(* A Python str is a sequence of fragments.  Document text is a sequence   *)
(* of one-character strings; a formatted string (the context prefix) may   *)
(* hold longer literal fragments such as "From '".  The empty sequence is  *)
(* the empty string, so Python's truthiness test `if s:` is `s # <<>>`.    *)
(***************************************************************************)
EXTENDS Integers, Sequences, FiniteSets, TLC

VARIABLES
    pc,               \* which operation has run last
    text,             \* the document text handed to the engine
    metadata,         \* the document metadata dict handed to chunk_document
    settings,         \* Settings: child_size, parent_size, overlap
    embedder,         \* the embedding stand-in the engine runs against
    embedding_model,  \* ChunkingEngine._embedding_model (lazy handle)
    uuid_counter,     \* number of identifiers uuid4() has handed out
    calls,            \* number of chunk_document calls made so far
    outcome,          \* "none" | "returned" | "raised" for the last call
    chunks,           \* list returned by the last chunk_document call
    prev_chunks,      \* list returned by the call before it (same input)
    sections,         \* list returned by _split_by_structure
    prefix_chunk,     \* the chunk handed to _generate_context_prefix
    prefix_out,       \* string returned by _generate_context_prefix
    embed_texts,      \* strings handed to the embedder by ingest_directory
    records,          \* rows of the vector store (db.add_documents appends)
    query_text,       \* the query handed to the QueryEngine
    top_k,            \* the top_k handed to QueryEngine.query
    corpus,           \* rows of the vector store a query runs against, ranked
    entities,         \* KnowledgeGraph.entities, in insertion order
    relationships,    \* KnowledgeGraph.relationships
    response,         \* what the last QueryEngine operation returned
    call_log,         \* collaborator calls of the last query, in order
    raise_at,         \* number of the collaborator call that raises, 0: none
    fn_in,            \* arguments of the helper method under test
    fn_out            \* what the helper method returned

\* the variables of the chunking and ingestion side, without pc
chunkData == <<text, metadata, settings, embedder, embedding_model, uuid_counter,
               calls, outcome, chunks, prev_chunks, sections, prefix_chunk,
               prefix_out, embed_texts, records>>

\* the variables of the query side and of the helper methods
queryVars == <<query_text, top_k, corpus, entities, relationships, response,
               call_log, raise_at, fn_in, fn_out>>

vars == <<pc, chunkData, queryVars>>

----------------------------------------------------------------------------
(* Characters and str helpers *)

NL == "\n"
SP == " "

\* str.isspace() / regex \s, on the characters of the model's alphabet
IsSpace(c) == c \in {SP, NL}

RECURSIVE LStrip(_)
LStrip(s) ==
    IF s = <<>> THEN s
    ELSE IF IsSpace(Head(s)) THEN LStrip(Tail(s)) ELSE s

RECURSIVE RStrip(_)
RStrip(s) ==
    IF s = <<>> THEN s
    ELSE IF IsSpace(s[Len(s)]) THEN RStrip(SubSeq(s, 1, Len(s) - 1)) ELSE s

\* str.strip()
Strip(s) == RStrip(LStrip(s))

RECURSIVE SplitFrom(_, _, _, _)
SplitFrom(s, i, cur, acc) ==
    IF i > Len(s)
    THEN IF cur = <<>> THEN acc ELSE Append(acc, cur)
    ELSE IF IsSpace(s[i])
         THEN SplitFrom(s, i + 1, <<>>, IF cur = <<>> THEN acc ELSE Append(acc, cur))
         ELSE SplitFrom(s, i + 1, Append(cur, s[i]), acc)

\* str.split(): the words between runs of whitespace
Split(s) == SplitFrom(s, 1, <<>>, <<>>)

RECURSIVE Join(_, _)
\* sep.join(parts)
Join(sep, parts) ==
    IF parts = <<>> THEN <<>>
    ELSE IF Len(parts) = 1 THEN parts[1]
    ELSE parts[1] \o sep \o Join(sep, Tail(parts))

Max(S) == CHOOSE m \in S : \A x \in S : x <= m

----------------------------------------------------------------------------
(* header_pattern = re.compile(r"^(#{1,4})\s+(.+)$", re.MULTILINE)         *)
(* Positions are 1-based; a match's `end` is the position after its last   *)
(* character, so text[a:b] of the source is SubSeq(t, a, b - 1).           *)

RECURSIVE HashRun(_, _)
HashRun(t, i) ==
    IF i <= Len(t) /\ t[i] = "#" THEN 1 + HashRun(t, i + 1) ELSE 0

RECURSIVE SpaceRun(_, _)
SpaceRun(t, i) ==
    IF i <= Len(t) /\ IsSpace(t[i]) THEN 1 + SpaceRun(t, i + 1) ELSE 0

RECURSIVE LineEnd(_, _)
\* where `$` matches at or after i: before the next newline or at the end
LineEnd(t, i) ==
    IF i > Len(t) \/ t[i] = NL THEN i ELSE LineEnd(t, i + 1)

NoMatch == [start |-> 0, end |-> 0, level |-> 0, group2 |-> <<>>]

\* The match of header_pattern that starts at line start i, if any.  After
\* the marks, \s+ takes the whole whitespace run (newlines included) when a
\* non-blank character follows it; when the run reaches the end of the text
\* \s+ backtracks to the last position from which (.+) can still match.
MatchAt(t, i) ==
    LET h == HashRun(t, i)
        w == SpaceRun(t, i + h)
        p == i + h + w
    IN  IF h < 1 \/ h > 4 \/ w < 1 THEN NoMatch
        ELSE IF p <= Len(t)
        THEN [start |-> i, end |-> LineEnd(t, p), level |-> h,
              group2 |-> SubSeq(t, p, LineEnd(t, p) - 1)]
        ELSE LET J == {j \in 1..(w - 1) : t[i + h + j] # NL}
             IN  IF J = {} THEN NoMatch
                 ELSE LET q == i + h + Max(J)
                      IN  [start |-> i, end |-> LineEnd(t, q), level |-> h,
                           group2 |-> SubSeq(t, q, LineEnd(t, q) - 1)]

\* `^` under re.MULTILINE
IsLineStart(t, i) == i = 1 \/ t[i - 1] = NL

RECURSIVE FindIter(_, _)
\* header_pattern.finditer(text): the non-overlapping matches, left to right
FindIter(t, i) ==
    IF i > Len(t) THEN <<>>
    ELSE LET m == IF IsLineStart(t, i) THEN MatchAt(t, i) ELSE NoMatch
         IN  IF m = NoMatch THEN FindIter(t, i + 1)
             ELSE <<m>> \o FindIter(t, m.end)

----------------------------------------------------------------------------
(* ChunkingEngine._split_by_structure *)

Section(txt, chapter, section) ==
    [text |-> txt, chapter |-> chapter, section |-> section]

\* HeaderStep with `last_end = match.start()`: the heading stays in the text
HeaderStepKeepsHeading(t, st, m) ==
    LET pre_text == Strip(SubSeq(t, st.last_end, m.start - 1))
        title == Strip(m.group2)
    IN  [sections |->
            IF pre_text # <<>>
            THEN Append(st.sections,
                        Section(pre_text, st.current_chapter, st.current_section))
            ELSE st.sections,
         current_chapter |-> IF m.level = 1 THEN title ELSE st.current_chapter,
         current_section |-> IF m.level = 1 THEN <<>> ELSE title,
         last_end |-> m.start]

\* HeaderStep without `current_section = ""` at a level-1 heading
HeaderStepKeepsSection(t, st, m) ==
    LET pre_text == Strip(SubSeq(t, st.last_end, m.start - 1))
        title == Strip(m.group2)
    IN  [sections |->
            IF pre_text # <<>>
            THEN Append(st.sections,
                        Section(pre_text, st.current_chapter, st.current_section))
            ELSE st.sections,
         current_chapter |-> IF m.level = 1 THEN title ELSE st.current_chapter,
         current_section |-> IF m.level = 1 THEN st.current_section ELSE title,
         last_end |-> m.end]

\* One iteration of `for match in header_pattern.finditer(text)`
HeaderStep(t, st, m) ==
    LET pre_text == Strip(SubSeq(t, st.last_end, m.start - 1))
        title == Strip(m.group2)
    IN  [sections |->
            IF pre_text # <<>>
            THEN Append(st.sections,
                        Section(pre_text, st.current_chapter, st.current_section))
            ELSE st.sections,
         current_chapter |-> IF m.level = 1 THEN title ELSE st.current_chapter,
         current_section |-> IF m.level = 1 THEN <<>> ELSE title,
         last_end |-> m.end]

RECURSIVE HeaderLoop(_, _, _)
HeaderLoop(t, st, ms) ==
    IF ms = <<>> THEN st
    ELSE HeaderLoop(t, HeaderStep(t, st, Head(ms)), Tail(ms))

\* SplitByStructure without the final `if not sections` fallback
SplitByStructureNoFallback(t) ==
    LET st0 == [sections |-> <<>>, current_chapter |-> <<>>,
                current_section |-> <<>>, last_end |-> 1]
        st == HeaderLoop(t, st0, FindIter(t, 1))
        remaining == Strip(SubSeq(t, st.last_end, Len(t)))
    IN  IF remaining # <<>>
        THEN Append(st.sections,
                    Section(remaining, st.current_chapter, st.current_section))
        ELSE st.sections

SplitByStructure(t) ==
    LET st0 == [sections |-> <<>>, current_chapter |-> <<>>,
                current_section |-> <<>>, last_end |-> 1]
        st == HeaderLoop(t, st0, FindIter(t, 1))
        remaining == Strip(SubSeq(t, st.last_end, Len(t)))
        secs == IF remaining # <<>>
                THEN Append(st.sections,
                            Section(remaining, st.current_chapter, st.current_section))
                ELSE st.sections
    IN  IF secs = <<>> THEN <<Section(t, <<>>, <<>>)>> ELSE secs

----------------------------------------------------------------------------
(* ChunkingEngine._split_sentences *)

RECURSIVE SentencePieces(_, _, _, _)
\* re.split(r"(?<=[.!?])\s+", text): cut at every whitespace run that
\* follows sentence-ending punctuation ("." in the model's alphabet)
SentencePieces(t, i, cur, acc) ==
    IF i > Len(t) THEN Append(acc, cur)
    ELSE IF IsSpace(t[i]) /\ i > 1 /\ t[i - 1] = "."
         THEN SentencePieces(t, i + SpaceRun(t, i), <<>>, Append(acc, cur))
         ELSE SentencePieces(t, i + 1, Append(cur, t[i]), acc)

RECURSIVE StripAll(_)
\* [s.strip() for s in sentences if s.strip()]
StripAll(pieces) ==
    IF pieces = <<>> THEN <<>>
    ELSE (IF Strip(Head(pieces)) # <<>> THEN <<Strip(Head(pieces))>> ELSE <<>>)
         \o StripAll(Tail(pieces))

SplitSentences(t) == StripAll(SentencePieces(t, 1, <<>>, <<>>))

----------------------------------------------------------------------------
(* The embedding stand-ins.  The engine runs against one of:               *)
(*   load_fails          SentenceTransformer(...) cannot be constructed    *)
(*   encode_raises       the model loads, encode() raises                  *)
(*   encode_raises_long  encode() raises on a batch of 3 or more sentences *)
(*   dot_raises          encode() returns vectors np.dot cannot multiply   *)
(*   sim_words           encode() works (all of the above but load_fails   *)
(*                       embed alike): a sentence is embedded by its word  *)
(*                       count, and the similarity of two sentences is 1.0 *)
(*                       for equal counts, 0.75 for counts one apart and   *)
(*                       0.5 otherwise                                     *)
(* Similarities and the threshold are in hundredths.                       *)

Embedders ==
    {"load_fails", "encode_raises", "encode_raises_long", "dot_raises", "sim_words"}

\* Settings.semantic_threshold = 0.75
semantic_threshold == 75

\* SentenceTransformer(self.settings.embedding_model) returns a model
LoadSucceeds == embedder # "load_fails"

\* self._embedding_model.encode(sentences, normalize_embeddings=True)
Encode(sentences) ==
    [raised |-> \/ embedder = "encode_raises"
                \/ embedder = "encode_raises_long" /\ Len(sentences) >= 3,
     value |-> [i \in DOMAIN sentences |-> Len(Split(sentences[i]))]]

\* float(np.dot(embeddings[i - 1], embeddings[i]))
Dot(e1, e2) ==
    [raised |-> embedder = "dot_raises",
     value |-> IF e1 = e2 THEN 100
               ELSE IF e1 - e2 \in {-1, 1} THEN 75 ELSE 50]

----------------------------------------------------------------------------
(* ChunkingEngine._get_sentence_embeddings, _merge_by_similarity,          *)
(* _token_split, _semantic_split                                           *)

\* GetSentenceEmbeddings that forgets to encode right after loading
GetSentenceEmbeddingsLoadOnly(sentences, model) ==
    IF ~model
    THEN [raised |-> FALSE, none |-> TRUE, embeddings |-> <<>>, model |-> LoadSucceeds]
    ELSE [raised |-> Encode(sentences).raised, none |-> FALSE,
          embeddings |-> Encode(sentences).value, model |-> TRUE]

\* `model` is self._embedding_model on entry (FALSE: None); the result holds
\* its value on exit, whether None was returned, and whether encode raised.
GetSentenceEmbeddings(sentences, model) ==
    IF ~model /\ ~LoadSucceeds
    THEN [raised |-> FALSE, none |-> TRUE, embeddings |-> <<>>, model |-> FALSE]
    ELSE [raised |-> Encode(sentences).raised, none |-> FALSE,
          embeddings |-> Encode(sentences).value, model |-> TRUE]

RECURSIVE MergeLoopStrict(_, _, _, _, _)
\* the merge loop that merges only above the threshold (`sim > threshold`)
MergeLoopStrict(sentences, embeddings, i, segments, current_segment) ==
    IF i > Len(sentences)
    THEN [raised |-> FALSE,
          segments |-> IF current_segment # <<>>
                       THEN Append(segments, Join(<<SP>>, current_segment))
                       ELSE segments]
    ELSE LET sim == Dot(embeddings[i - 1], embeddings[i])
         IN  IF sim.raised THEN [raised |-> TRUE, segments |-> <<>>]
             ELSE IF sim.value > semantic_threshold
             THEN MergeLoopStrict(sentences, embeddings, i + 1, segments,
                                  Append(current_segment, sentences[i]))
             ELSE MergeLoopStrict(sentences, embeddings, i + 1,
                                  Append(segments, Join(<<SP>>, current_segment)),
                                  <<sentences[i]>>)

RECURSIVE MergeLoop(_, _, _, _, _)
\* `for i in range(1, len(sentences))`, i 1-based here
MergeLoop(sentences, embeddings, i, segments, current_segment) ==
    IF i > Len(sentences)
    THEN [raised |-> FALSE,
          segments |-> IF current_segment # <<>>
                       THEN Append(segments, Join(<<SP>>, current_segment))
                       ELSE segments]
    ELSE LET sim == Dot(embeddings[i - 1], embeddings[i])
         IN  IF sim.raised THEN [raised |-> TRUE, segments |-> <<>>]
             ELSE IF sim.value >= semantic_threshold
             THEN MergeLoop(sentences, embeddings, i + 1, segments,
                            Append(current_segment, sentences[i]))
             ELSE MergeLoop(sentences, embeddings, i + 1,
                            Append(segments, Join(<<SP>>, current_segment)),
                            <<sentences[i]>>)

MergeBySimilarity(sentences, embeddings) ==
    MergeLoop(sentences, embeddings, 2, <<>>, <<sentences[1]>>)

RECURSIVE WindowLoopOverlapLess(_, _, _)
\* the window loop that steps back one word less than the overlap
WindowLoopOverlapLess(words, start, segments) ==
    IF ~(start < Len(words)) THEN segments
    ELSE LET end == IF start + settings.child_size < Len(words)
                    THEN start + settings.child_size ELSE Len(words)
             back == IF settings.overlap > 0 THEN settings.overlap - 1 ELSE 0
         IN  WindowLoopOverlapLess(words,
                        IF end < Len(words) THEN end - back ELSE end,
                        Append(segments, Join(<<SP>>, SubSeq(words, start + 1, end))))

RECURSIVE WindowLoop(_, _, _)
\* `while start < len(words)` of _token_split; start is 0-based as in the source
WindowLoop(words, start, segments) ==
    IF ~(start < Len(words)) THEN segments
    ELSE LET end == IF start + settings.child_size < Len(words)
                    THEN start + settings.child_size ELSE Len(words)
         IN  WindowLoop(words,
                        IF end < Len(words) THEN end - settings.overlap ELSE end,
                        Append(segments, Join(<<SP>>, SubSeq(words, start + 1, end))))

TokenSplit(t) ==
    IF Len(Split(t)) <= settings.child_size THEN <<t>>
    ELSE WindowLoop(Split(t), 0, <<>>)

\* SemanticSplit without the try/except around the embedding calls
SemanticSplitNoCatch(section_text, model) ==
    LET sentences == SplitSentences(section_text)
        got == GetSentenceEmbeddings(sentences, model)
        merged == MergeBySimilarity(sentences, got.embeddings)
    IN  IF Len(sentences) <= 1
        THEN [raised |-> FALSE, model |-> model,
              segments |-> IF sentences # <<>> THEN sentences ELSE <<section_text>>]
        ELSE IF got.raised THEN [raised |-> TRUE, model |-> got.model, segments |-> <<>>]
        ELSE IF ~got.none /\ merged.raised
        THEN [raised |-> TRUE, model |-> got.model, segments |-> <<>>]
        ELSE IF ~got.none
        THEN [raised |-> FALSE, model |-> got.model, segments |-> merged.segments]
        ELSE [raised |-> FALSE, model |-> got.model, segments |-> TokenSplit(section_text)]

\* The result holds the segments, self._embedding_model on exit, and whether
\* an exception left the method (the `except Exception` lets none out).
SemanticSplit(section_text, model) ==
    LET sentences == SplitSentences(section_text)
        got == GetSentenceEmbeddings(sentences, model)
        merged == MergeBySimilarity(sentences, got.embeddings)
    IN  IF Len(sentences) <= 1
        THEN [raised |-> FALSE, model |-> model,
              segments |-> IF sentences # <<>> THEN sentences ELSE <<section_text>>]
        ELSE IF ~got.raised /\ ~got.none /\ ~merged.raised
        THEN [raised |-> FALSE, model |-> got.model, segments |-> merged.segments]
        ELSE [raised |-> FALSE, model |-> got.model, segments |-> TokenSplit(section_text)]

----------------------------------------------------------------------------
(* Chunk, uuid4, ChunkingEngine._ensure_child_size, _create_parent_child   *)

\* Optional[str] parent_id = None, Optional[int] page_num = None
NoParent == 0
NoPage == -1

\* an empty dict
EmptyDict == <<>>

\* dict.get(key, default)
Get(d, k, default) == IF k \in DOMAIN d THEN d[k] ELSE default

\* str(uuid.uuid4()) when `counter` identifiers have been handed out: a
\* fresh identifier, different from every earlier one
Uuid4(counter) == counter + 1

\* the Chunk dataclass; context_prefix and metadata take their defaults
Chunk(txt, chunk_id, parent_id, loc, is_parent) ==
    [text |-> txt, chunk_id |-> chunk_id, parent_id |-> parent_id,
     source_file |-> loc.source_file, page_num |-> loc.page_num,
     chapter |-> loc.chapter, section |-> loc.section,
     is_parent |-> is_parent, context_prefix |-> <<>>, metadata |-> EmptyDict]

RECURSIVE PartLoopNoOverlap(_, _, _)
\* the part loop that starts each part where the last one ended
PartLoopNoOverlap(words, start, parts) ==
    IF ~(start < Len(words)) THEN parts
    ELSE LET end == IF start + settings.child_size < Len(words)
                    THEN start + settings.child_size ELSE Len(words)
         IN  PartLoopNoOverlap(words, end,
                      Append(parts, Join(<<SP>>, SubSeq(words, start + 1, end))))

RECURSIVE PartLoop(_, _, _)
\* `while start < len(words)` of _ensure_child_size
PartLoop(words, start, parts) ==
    IF ~(start < Len(words)) THEN parts
    ELSE LET end == IF start + settings.child_size < Len(words)
                    THEN start + settings.child_size ELSE Len(words)
         IN  PartLoop(words,
                      IF end < Len(words) THEN end - settings.overlap ELSE end,
                      Append(parts, Join(<<SP>>, SubSeq(words, start + 1, end))))

EnsureChildSize(t) ==
    IF Len(Split(t)) <= settings.child_size THEN <<t>>
    ELSE PartLoop(Split(t), 0, <<>>)

RECURSIVE GroupLoopLate(_, _, _, _)
\* the grouping loop that closes a group only once its own count exceeds
\* parent_size
GroupLoopLate(segments, parent_groups, current_group, current_word_count) ==
    IF segments = <<>>
    THEN IF current_group # <<>> THEN Append(parent_groups, current_group)
         ELSE parent_groups
    ELSE LET segment == Head(segments)
             seg_words == Len(Split(segment))
         IN  IF current_word_count > settings.parent_size /\ current_group # <<>>
             THEN GroupLoopLate(Tail(segments), Append(parent_groups, current_group),
                                <<segment>>, seg_words)
             ELSE GroupLoopLate(Tail(segments), parent_groups,
                                Append(current_group, segment),
                                current_word_count + seg_words)

RECURSIVE GroupLoopAtLimit(_, _, _, _)
\* the grouping loop that closes a group as soon as the count reaches
\* parent_size (`>=` for `>`)
GroupLoopAtLimit(segments, parent_groups, current_group, current_word_count) ==
    IF segments = <<>>
    THEN IF current_group # <<>> THEN Append(parent_groups, current_group)
         ELSE parent_groups
    ELSE LET segment == Head(segments)
             seg_words == Len(Split(segment))
         IN  IF current_word_count + seg_words >= settings.parent_size
                /\ current_group # <<>>
             THEN GroupLoopAtLimit(Tail(segments), Append(parent_groups, current_group),
                                   <<segment>>, seg_words)
             ELSE GroupLoopAtLimit(Tail(segments), parent_groups,
                                   Append(current_group, segment),
                                   current_word_count + seg_words)

RECURSIVE GroupLoop(_, _, _, _)
\* `for segment in segments`: group the segments into parent-sized blocks
GroupLoop(segments, parent_groups, current_group, current_word_count) ==
    IF segments = <<>>
    THEN IF current_group # <<>> THEN Append(parent_groups, current_group)
         ELSE parent_groups
    ELSE LET segment == Head(segments)
             seg_words == Len(Split(segment))
         IN  IF current_word_count + seg_words > settings.parent_size
                /\ current_group # <<>>
             THEN GroupLoop(Tail(segments), Append(parent_groups, current_group),
                            <<segment>>, seg_words)
             ELSE GroupLoop(Tail(segments), parent_groups,
                            Append(current_group, segment),
                            current_word_count + seg_words)

RECURSIVE ChildTexts(_)
\* the child texts of a group: _ensure_child_size(segment) for each segment
ChildTexts(group) ==
    IF group = <<>> THEN <<>>
    ELSE EnsureChildSize(Head(group)) \o ChildTexts(Tail(group))

\* ChildChunks that leaves the children unlinked (parent_id=None)
ChildChunksUnlinked(texts, parent_id, loc, counter) ==
    [i \in DOMAIN texts |->
        Chunk(texts[i], Uuid4(counter + i - 1), NoParent, loc, FALSE)]

\* ChildChunks that reuses the parent's identifier for the first child
ChildChunksReuseId(texts, parent_id, loc, counter) ==
    [i \in DOMAIN texts |->
        Chunk(texts[i], IF i = 1 THEN parent_id ELSE Uuid4(counter + i - 1),
              parent_id, loc, FALSE)]

\* the child chunks of one group, each with a fresh chunk_id
ChildChunks(texts, parent_id, loc, counter) ==
    [i \in DOMAIN texts |->
        Chunk(texts[i], Uuid4(counter + i - 1), parent_id, loc, FALSE)]

RECURSIVE GroupChunks(_, _, _, _)
\* `for group in parent_groups`: the parent chunk, then its child chunks.
\* The result holds the chunks and the number of identifiers handed out.
GroupChunks(parent_groups, loc, counter, all_chunks) ==
    IF parent_groups = <<>> THEN [chunks |-> all_chunks, counter |-> counter]
    ELSE LET group == Head(parent_groups)
             parent_id == Uuid4(counter)
             parent_chunk == Chunk(Join(<<SP>>, group), parent_id, NoParent, loc, TRUE)
             children == ChildChunks(ChildTexts(group), parent_id, loc, counter + 1)
         IN  GroupChunks(Tail(parent_groups), loc, counter + 1 + Len(children),
                         all_chunks \o <<parent_chunk>> \o children)

CreateParentChild(segments, loc, counter) ==
    GroupChunks(GroupLoop(segments, <<>>, <<>>, 0), loc, counter, <<>>)

----------------------------------------------------------------------------
(* ChunkingEngine._generate_context_prefix *)

\* GenerateContextPrefix that joins the clauses without the closing ". "
GenerateContextPrefixUnterminated(chunk, book_metadata) ==
    LET book_title == Get(book_metadata, "book_title", <<>>)
        author == Get(book_metadata, "author", <<>>)
        parts ==
            (IF book_title # <<>>
             THEN <<<<"From '">> \o book_title \o <<"'">>>>
                  \o (IF author # <<>> THEN <<<<"by ">> \o author>> ELSE <<>>)
             ELSE <<>>)
            \o (IF chunk.chapter # <<>>
                THEN <<<<"in chapter '">> \o chunk.chapter \o <<"'">>>> ELSE <<>>)
            \o (IF chunk.section # <<>>
                THEN <<<<"section '">> \o chunk.section \o <<"'">>>> ELSE <<>>)
            \o (IF chunk.page_num # NoPage
                THEN <<<<"(page ", ToString(chunk.page_num), ")">>>> ELSE <<>>)
    IN  IF parts = <<>> THEN <<>> ELSE Join(<<SP>>, parts)

GenerateContextPrefix(chunk, book_metadata) ==
    LET book_title == Get(book_metadata, "book_title", <<>>)
        author == Get(book_metadata, "author", <<>>)
        parts ==
            (IF book_title # <<>>
             THEN <<<<"From '">> \o book_title \o <<"'">>>>
                  \o (IF author # <<>> THEN <<<<"by ">> \o author>> ELSE <<>>)
             ELSE <<>>)
            \o (IF chunk.chapter # <<>>
                THEN <<<<"in chapter '">> \o chunk.chapter \o <<"'">>>> ELSE <<>>)
            \o (IF chunk.section # <<>>
                THEN <<<<"section '">> \o chunk.section \o <<"'">>>> ELSE <<>>)
            \o (IF chunk.page_num # NoPage
                THEN <<<<"(page ", ToString(chunk.page_num), ")">>>> ELSE <<>>)
    IN  IF parts = <<>> THEN <<>> ELSE Join(<<SP>>, parts) \o <<".", SP>>

----------------------------------------------------------------------------
(* ChunkingEngine.chunk_document *)

\* `chunk.context_prefix = self._generate_context_prefix(chunk, metadata)`
AssignContextPrefix(chunk, md) ==
    [chunk EXCEPT !.context_prefix = GenerateContextPrefix(chunk, md)]

\* SectionStep that puts the chunks of a section ahead of those of the
\* sections before it
SectionStepPrepends(section_info, md, st) ==
    LET loc == [source_file |-> Get(md, "source_file", <<>>),
                page_num |-> Get(md, "page_num", NoPage),
                chapter |-> section_info.chapter,
                section |-> section_info.section]
        sub_segments == SemanticSplit(section_info.text, st.model)
        pc_chunks == CreateParentChild(sub_segments.segments, loc, st.counter)
    IN  IF Strip(section_info.text) = <<>> THEN st
        ELSE IF sub_segments.raised
        THEN [raised |-> TRUE, chunks |-> <<>>, model |-> sub_segments.model,
              counter |-> st.counter]
        ELSE [raised |-> FALSE,
              chunks |-> [i \in DOMAIN pc_chunks.chunks |->
                                AssignContextPrefix(pc_chunks.chunks[i], md)]
                         \o st.chunks,
              model |-> sub_segments.model,
              counter |-> pc_chunks.counter]

\* One iteration of `for section_info in sections`.  st holds all_chunks,
\* self._embedding_model, the identifiers handed out, and whether an
\* exception has left the call.
SectionStep(section_info, md, st) ==
    LET loc == [source_file |-> Get(md, "source_file", <<>>),
                page_num |-> Get(md, "page_num", NoPage),
                chapter |-> section_info.chapter,
                section |-> section_info.section]
        sub_segments == SemanticSplit(section_info.text, st.model)
        pc_chunks == CreateParentChild(sub_segments.segments, loc, st.counter)
    IN  IF Strip(section_info.text) = <<>> THEN st
        ELSE IF sub_segments.raised
        THEN [raised |-> TRUE, chunks |-> <<>>, model |-> sub_segments.model,
              counter |-> st.counter]
        ELSE [raised |-> FALSE,
              chunks |-> st.chunks
                         \o [i \in DOMAIN pc_chunks.chunks |->
                                AssignContextPrefix(pc_chunks.chunks[i], md)],
              model |-> sub_segments.model,
              counter |-> pc_chunks.counter]

RECURSIVE SectionLoop(_, _, _)
SectionLoop(secs, md, st) ==
    IF secs = <<>> \/ st.raised THEN st
    ELSE SectionLoop(Tail(secs), md, SectionStep(Head(secs), md, st))

\* chunk_document(text, metadata) on an engine whose _embedding_model is
\* `model`, `counter` identifiers having been handed out before the call
ChunkDocument(t, md, model, counter) ==
    IF Strip(t) = <<>>
    THEN [raised |-> FALSE, chunks |-> <<>>, model |-> model, counter |-> counter]
    ELSE SectionLoop(SplitByStructure(t), md,
                     [raised |-> FALSE, chunks |-> <<>>, model |-> model,
                      counter |-> counter])

----------------------------------------------------------------------------
(* ingest_directory, Phase 2: embedding and storage of one file *)

\* `texts = [c.context_prefix + c.text for c in all_chunks]`
EmbedTexts(all_chunks) ==
    [i \in DOMAIN all_chunks |-> all_chunks[i].context_prefix \o all_chunks[i].text]

\* BuildRecord that stores the embedded string as the record's text
BuildRecordEmbeddedText(chunk, embedding, book_meta) ==
    [id |-> chunk.chunk_id,
     text |-> chunk.context_prefix \o chunk.text,
     vector |-> embedding,
     parent_id |-> chunk.parent_id,
     source_file |-> chunk.source_file,
     page_num |-> chunk.page_num,
     chapter |-> chunk.chapter,
     section |-> chunk.section,
     language |-> Get(chunk.metadata, "language", <<>>),
     ocr_confidence |-> Get(chunk.metadata, "ocr_confidence", 0),
     book_title |-> IF Get(chunk.metadata, "book_title", <<>>) # <<>>
                    THEN Get(chunk.metadata, "book_title", <<>>) ELSE book_meta.title,
     author |-> IF Get(chunk.metadata, "author", <<>>) # <<>>
                THEN Get(chunk.metadata, "author", <<>>) ELSE book_meta.author,
     is_parent |-> chunk.is_parent,
     context_prefix |-> chunk.context_prefix]

\* The record built for one chunk (`records.append({...})`).  The vector is
\* stood for by the string it embeds; NoParent stands for the "" that
\* `chunk.parent_id or ""` stores for a parent.
BuildRecord(chunk, embedding, book_meta) ==
    [id |-> chunk.chunk_id,
     text |-> chunk.text,
     vector |-> embedding,
     parent_id |-> chunk.parent_id,
     source_file |-> chunk.source_file,
     page_num |-> chunk.page_num,
     chapter |-> chunk.chapter,
     section |-> chunk.section,
     language |-> Get(chunk.metadata, "language", <<>>),
     ocr_confidence |-> Get(chunk.metadata, "ocr_confidence", 0),
     book_title |-> IF Get(chunk.metadata, "book_title", <<>>) # <<>>
                    THEN Get(chunk.metadata, "book_title", <<>>) ELSE book_meta.title,
     author |-> IF Get(chunk.metadata, "author", <<>>) # <<>>
                THEN Get(chunk.metadata, "author", <<>>) ELSE book_meta.author,
     is_parent |-> chunk.is_parent,
     context_prefix |-> chunk.context_prefix]

RECURSIVE BuildRecords(_, _, _, _, _)
\* `for chunk, embedding in zip(all_chunks, all_embeddings)`, from index i;
\* the embeddings of the chunks at the positions `nans` hold a NaN and
\* their chunks are dropped
BuildRecords(all_chunks, texts, nans, book_meta, i) ==
    IF i > Len(all_chunks) THEN <<>>
    ELSE (IF i \in nans THEN <<>>
          ELSE <<BuildRecord(all_chunks[i], texts[i], book_meta)>>)
         \o BuildRecords(all_chunks, texts, nans, book_meta, i + 1)

----------------------------------------------------------------------------
(* Bounded inputs: documents *)

MaxLines == 4
MaxChars == 5

Alphabet == {"a", ".", "#", SP, NL}

\* Lines a document is assembled from: body text, headings of level 1, 2
\* and 4 with different titles, and lines that only look like headings.
SplitLines ==
    { <<>>,
      <<"a">>,
      <<".", SP, "a">>,
      <<SP, "#", SP, "a">>,
      <<"#", SP, "a">>,
      <<"#", SP, ".">>,
      <<"#", "#", SP, "a">>,
      <<"#", "#", "#", "#", SP, ".", SP>>,
      <<"#", "#", "#", "#", "#", SP, "a">>,
      <<"#", "a">>,
      <<"#">>,
      <<"#", SP, SP>> }

\* the document whose lines (or blocks of lines) are ls
Document(ls) == Join(<<NL>>, ls)

\* t is a document _split_by_structure is applied to: up to MaxLines of
\* SplitLines, or any string of up to MaxChars characters
IsSplitText(t) ==
    \/ \E n \in 1..MaxLines : \E ls \in [1..n -> SplitLines] : t = Document(ls)
    \/ \E n \in 0..MaxChars : \E cs \in [1..n -> Alphabet] : t = cs

\* Blocks the documents handed to chunk_document are assembled from: a
\* blank line, a sentence longer than a child chunk, three sentences of
\* different lengths, a heading alone, and a chapter and section heading
\* followed by two sentences.
DocBlocks ==
    { <<>>,
      <<"a", SP, "a", SP, "a">>,
      <<"a", ".", SP, "a", SP, "a", SP, "a", ".", SP, "a", SP, "a">>,
      <<"#", SP, "a">>,
      <<"#", SP, "a", NL, "#", "#", SP, ".", NL, "a", ".", SP, "a">> }

MaxDocBlocks == 2

\* t is a document handed to chunk_document: up to MaxDocBlocks of DocBlocks
IsDocText(t) ==
    \E n \in 1..MaxDocBlocks : \E ls \in [1..n -> DocBlocks] : t = Document(ls)

MaxChildSize == 2
MaxParentSize == 3

\* Settings with 1 <= chunk_size_search, 0 <= chunk_overlap < chunk_size_search
\* and chunk_size_search <= chunk_size_parent
SettingsChoices ==
    {[child_size |-> c, parent_size |-> p, overlap |-> o] :
        c \in 1..MaxChildSize, p \in 1..MaxParentSize, o \in 0..MaxChildSize}

ValidSettings == {cfg \in SettingsChoices :
                    cfg.overlap < cfg.child_size /\ cfg.child_size <= cfg.parent_size}

\* The metadata dict as ingest_directory builds it from a page and the book
\* record (ocr_confidence in hundredths)
IngestMetadata(book_title, author, page_num) ==
    [source_file |-> <<"book.pdf">>, page_num |-> page_num,
     language |-> <<"ko">>, ocr_confidence |-> 90,
     book_title |-> book_title, author |-> author]

\* The metadata dicts handed to chunk_document: the one of the tests, which
\* names the source file only, and those of ingest_directory
Metadatas ==
    { [source_file |-> <<"test.pdf">>],
      IngestMetadata(<<"Test Book">>, <<"Jane Doe">>, 3) }

\* The metadata dicts ingest_directory hands to chunk_document
IngestMetadatas ==
    { IngestMetadata(<<"Test Book">>, <<"Jane Doe">>, 3),
      IngestMetadata(<<>>, <<"Jane Doe">>, NoPage) }

MaxPage == 1

\* The chunks and metadata dicts handed to _generate_context_prefix
Labels == {<<>>, <<"a">>, <<".", SP, "a">>}
Pages == {NoPage} \cup 0..MaxPage
PrefixChunks ==
    {Chunk(<<"a">>, 1, NoParent,
           [source_file |-> <<"test.pdf">>, page_num |-> p, chapter |-> c, section |-> x],
           FALSE) : c \in Labels, x \in Labels, p \in Pages}
PrefixMetadatas ==
    { [source_file |-> <<"test.pdf">>] }
    \cup {IngestMetadata(t, a, NoPage) :
            t \in {<<>>, <<"Test Book">>}, a \in {<<>>, <<"Jane Doe">>}}

----------------------------------------------------------------------------
(* Values of the variables an operation does not use *)

NoChunk == [text |-> <<>>]

Unused ==
    /\ metadata = EmptyDict
    /\ settings = [child_size |-> 1, parent_size |-> 1, overlap |-> 0]
    /\ embedder = "load_fails"
    /\ embedding_model = FALSE
    /\ uuid_counter = 0
    /\ calls = 0
    /\ outcome = "none"
    /\ chunks = <<>>
    /\ prev_chunks = <<>>
    /\ prefix_chunk = NoChunk
    /\ prefix_out = <<>>
    /\ embed_texts = <<>>
    /\ records = <<>>

\* the query side at rest
QueryUnused ==
    /\ query_text = <<>>
    /\ top_k = 0
    /\ corpus = <<>>
    /\ entities = <<>>
    /\ relationships = <<>>
    /\ response = <<>>
    /\ call_log = <<>>
    /\ raise_at = 0
    /\ fn_in = <<>>
    /\ fn_out = <<>>

----------------------------------------------------------------------------
(* Specification Spec: a ChunkingEngine is constructed for some settings   *)
(* and embedding stand-in and chunk_document is called on a document, up   *)
(* to MaxCalls times; a new engine may be constructed between the calls.   *)

MaxCalls == 2

Init ==
    /\ pc = "init"
    /\ IsDocText(text)
    /\ metadata \in Metadatas
    /\ settings \in ValidSettings
    /\ embedder \in Embedders
    /\ embedding_model = FALSE
    /\ uuid_counter = 0
    /\ calls = 0
    /\ outcome = "none"
    /\ chunks = <<>>
    /\ prev_chunks = <<>>
    /\ sections = <<>>
    /\ prefix_chunk = NoChunk
    /\ prefix_out = <<>>
    /\ embed_texts = <<>>
    /\ records = <<>>
    /\ QueryUnused

\* engine.chunk_document(text, metadata)
ChunkDocumentCall ==
    /\ calls < MaxCalls
    /\ \E r \in {ChunkDocument(text, metadata, embedding_model, uuid_counter)} :
           /\ outcome' = IF r.raised THEN "raised" ELSE "returned"
           /\ chunks' = r.chunks
           /\ embedding_model' = r.model
           /\ uuid_counter' = r.counter
    /\ prev_chunks' = chunks
    /\ calls' = calls + 1
    /\ pc' = "chunked"
    /\ UNCHANGED <<text, metadata, settings, embedder, sections, prefix_chunk,
                   prefix_out, embed_texts, records>>
    /\ UNCHANGED queryVars

\* ChunkingEngine(settings): a new engine, `_embedding_model = None`
NewEngine ==
    /\ embedding_model' = FALSE
    /\ UNCHANGED <<pc, text, metadata, settings, embedder, uuid_counter, calls,
                   outcome, chunks, prev_chunks, sections, prefix_chunk,
                   prefix_out, embed_texts, records>>
    /\ UNCHANGED queryVars

Next == ChunkDocumentCall \/ NewEngine

Spec == Init /\ [][Next]_vars

----------------------------------------------------------------------------
(* Specification SpecIngest: ingest_directory embeds and stores a file of  *)
(* one page, up to MaxCalls times (a later run ingests the file again with *)
(* an engine of its own).                                                  *)

MaxNan == 2

InitIngest ==
    /\ pc = "init"
    /\ IsDocText(text)
    /\ metadata \in IngestMetadatas
    /\ settings \in ValidSettings
    /\ embedder \in Embedders
    /\ embedding_model = FALSE
    /\ uuid_counter = 0
    /\ calls = 0
    /\ outcome = "none"
    /\ chunks = <<>>
    /\ prev_chunks = <<>>
    /\ sections = <<>>
    /\ prefix_chunk = NoChunk
    /\ prefix_out = <<>>
    /\ embed_texts = <<>>
    /\ records = <<>>
    /\ QueryUnused

\* The body of `for file_path_str, ocr_result in ocr_results.items()` from
\* Step 2b on: chunk the page, embed the chunks, store the records.  The
\* embedder may fail (embed_ok) or return NaN vectors for the chunks at
\* the positions `nans`.
IngestFile ==
    /\ calls < MaxCalls
    /\ \E r \in {ChunkDocument(text, metadata, embedding_model, uuid_counter)} :
       \E nans \in SUBSET (1..MaxNan), embed_ok \in BOOLEAN :
           /\ outcome' = IF r.raised THEN "raised" ELSE "returned"
           /\ chunks' = r.chunks
           /\ embedding_model' = r.model
           /\ uuid_counter' = r.counter
           /\ IF r.raised
              THEN pc' = "error" /\ UNCHANGED <<embed_texts, records>>
              ELSE IF r.chunks = <<>>
              THEN pc' = "empty" /\ UNCHANGED <<embed_texts, records>>
              ELSE IF ~embed_ok
              THEN pc' = "error" /\ embed_texts' = EmbedTexts(r.chunks)
                   /\ UNCHANGED records
              ELSE /\ pc' = "done"
                   /\ embed_texts' = EmbedTexts(r.chunks)
                   /\ records' = records \o
                          BuildRecords(r.chunks, EmbedTexts(r.chunks), nans,
                                       [title |-> metadata.book_title,
                                        author |-> metadata.author], 1)
    /\ prev_chunks' = chunks
    /\ calls' = calls + 1
    /\ UNCHANGED <<text, metadata, settings, embedder, sections, prefix_chunk,
                   prefix_out>>
    /\ UNCHANGED queryVars

NextIngest == IngestFile \/ NewEngine

SpecIngest == InitIngest /\ [][NextIngest]_vars

----------------------------------------------------------------------------
(* Specification SpecPrefix: _generate_context_prefix applied to a chunk *)

InitPrefix ==
    /\ pc = "init"
    /\ prefix_chunk \in PrefixChunks
    /\ metadata \in PrefixMetadatas
    /\ prefix_out = <<>>
    /\ text = <<>>
    /\ sections = <<>>
    /\ settings = [child_size |-> 1, parent_size |-> 1, overlap |-> 0]
    /\ embedder = "load_fails"
    /\ embedding_model = FALSE
    /\ uuid_counter = 0
    /\ calls = 0
    /\ outcome = "none"
    /\ chunks = <<>>
    /\ prev_chunks = <<>>
    /\ embed_texts = <<>>
    /\ records = <<>>
    /\ QueryUnused

GeneratePrefix ==
    /\ pc = "init"
    /\ prefix_out' = GenerateContextPrefix(prefix_chunk, metadata)
    /\ pc' = "prefixed"
    /\ UNCHANGED <<text, metadata, settings, embedder, embedding_model,
                   uuid_counter, calls, outcome, chunks, prev_chunks, sections,
                   prefix_chunk, embed_texts, records>>
    /\ UNCHANGED queryVars

NextPrefix == GeneratePrefix

SpecPrefix == InitPrefix /\ [][NextPrefix]_vars

----------------------------------------------------------------------------
(* Specification SpecSplit: _split_by_structure applied to a document *)

InitSplit ==
    /\ pc = "init"
    /\ IsSplitText(text)
    /\ sections = <<>>
    /\ Unused
    /\ QueryUnused

StructureSplit ==
    /\ pc = "init"
    /\ sections' = SplitByStructure(text)
    /\ pc' = "split"
    /\ UNCHANGED <<text, metadata, settings, embedder, embedding_model,
                   uuid_counter, calls, outcome, chunks, prev_chunks,
                   prefix_chunk, prefix_out, embed_texts, records>>
    /\ UNCHANGED queryVars

NextSplit == StructureSplit

SpecSplit == InitSplit /\ [][NextSplit]_vars

----------------------------------------------------------------------------
(* Claims about _split_by_structure *)

\* the non-whitespace characters of s, in order
NonSpace(s) == SelectSeq(s, LAMBDA c : ~IsSpace(c))

RECURSIVE ConcatTexts(_)
ConcatTexts(secs) ==
    IF secs = <<>> THEN <<>> ELSE Head(secs).text \o ConcatTexts(Tail(secs))

\* position i lies inside one of the heading matches ms
InHeading(ms, i) ==
    \E k \in DOMAIN ms : ms[k].start <= i /\ i < ms[k].end

\* the non-whitespace characters of t that lie in no match of header_pattern
OutsideHeadings(t) ==
    LET ms == FindIter(t, 1)
        keep == {i \in DOMAIN t : ~InHeading(ms, i)}
    IN  SelectSeq([i \in DOMAIN t |-> IF i \in keep THEN t[i] ELSE NL],
                  LAMBDA c : ~IsSpace(c))

\* C6 as stated: the texts of the segments returned by _split_by_structure,
\* concatenated in order, hold every non-whitespace character of the
\* original text exactly once and in the original order.
C6_PartitionsWholeText ==
    pc = "split" => NonSpace(ConcatTexts(sections)) = NonSpace(text)

\* C6 as amended: the concatenated segment texts hold, exactly once and in
\* order, the non-whitespace characters of the text that lie outside the
\* heading matches (heading lines are dropped from the text); when nothing
\* but whitespace lies outside the heading matches, the single segment is
\* the whole text with empty labels.
C6_PartitionsTextOutsideHeadings ==
    pc = "split" =>
        IF OutsideHeadings(text) # <<>>
        THEN NonSpace(ConcatTexts(sections)) = OutsideHeadings(text)
        ELSE sections = <<Section(text, <<>>, <<>>)>>

\* a document with a heading between two bodies has been split
C6_Witness ==
    /\ pc = "split"
    /\ Len(sections) >= 2
    /\ FindIter(text, 1) # <<>>
    /\ NonSpace(ConcatTexts(sections)) # NonSpace(text)

\* The gap before heading k + 1 (k = 0: before the first heading; k = the
\* number of headings: after the last one), trimmed.
GapText(t, ms, k) ==
    Strip(SubSeq(t,
                 IF k = 0 THEN 1 ELSE ms[k].end,
                 IF k = Len(ms) THEN Len(t) ELSE ms[k + 1].start - 1))

\* the gaps that hold text, in document order
RECURSIVE TextGaps(_, _, _)
TextGaps(t, ms, k) ==
    IF k > Len(ms) THEN <<>>
    ELSE (IF GapText(t, ms, k) # <<>> THEN <<k>> ELSE <<>>) \o TextGaps(t, ms, k + 1)

\* index of the most recent level-1 heading among the first k, 0 if none
LastChapterIdx(ms, k) ==
    LET S == {j \in 1..k : ms[j].level = 1} IN IF S = {} THEN 0 ELSE Max(S)

\* title of the most recent level-1 heading among the first k headings
ChapterLabel(ms, k) ==
    IF LastChapterIdx(ms, k) = 0 THEN <<>>
    ELSE Strip(ms[LastChapterIdx(ms, k)].group2)

\* title of the most recent level-2-to-4 heading after that level-1 heading
SectionLabel(ms, k) ==
    LET S == {j \in (LastChapterIdx(ms, k) + 1)..k : ms[j].level >= 2}
    IN  IF S = {} THEN <<>> ELSE Strip(ms[Max(S)].group2)

\* C7: every segment carries as chapter label the title of the most recent
\* level-1 heading before its text and as section label the title of the
\* most recent deeper heading after that level-1 heading and before its
\* text, each empty when there is no such heading.
C7_LabelsFollowHeadings ==
    pc = "split" =>
        LET ms == FindIter(text, 1)
            gaps == TextGaps(text, ms, 0)
        IN  IF gaps = <<>>
            THEN sections = <<Section(text, <<>>, <<>>)>>
            ELSE /\ Len(sections) = Len(gaps)
                 /\ \A j \in DOMAIN gaps :
                        /\ sections[j].text = GapText(text, ms, gaps[j])
                        /\ sections[j].chapter = ChapterLabel(ms, gaps[j])
                        /\ sections[j].section = SectionLabel(ms, gaps[j])

\* the split has produced a segment labelled with a chapter and a section
C7_Witness ==
    /\ pc = "split"
    /\ \E j \in DOMAIN sections :
          sections[j].chapter # <<>> /\ sections[j].section # <<>>

----------------------------------------------------------------------------
(* Claims about chunk_document *)

\* the position in cs of the first chunk whose chunk_id is id, 0 if none
PositionOf(cs, id) ==
    LET S == {j \in DOMAIN cs : cs[j].chunk_id = id}
    IN  IF S = {} THEN 0 ELSE CHOOSE j \in S : \A k \in S : j <= k

\* a chunk list up to identifiers: each chunk without its chunk_id, its
\* parent named by position
UpToIds(cs) ==
    [i \in DOMAIN cs |->
        [text |-> cs[i].text, is_parent |-> cs[i].is_parent,
         chapter |-> cs[i].chapter, section |-> cs[i].section,
         page_num |-> cs[i].page_num, context_prefix |-> cs[i].context_prefix,
         parent |-> IF cs[i].parent_id = NoParent THEN 0
                    ELSE PositionOf(cs, cs[i].parent_id)]]

\* C1: chunk_document returns the empty list for a blank text and a
\* non-empty list for every other text, with or without headings, whatever
\* the embedding stand-in.
C1_EmptyIffBlank ==
    calls > 0 =>
        /\ outcome = "returned"
        /\ (chunks = <<>>) <=> (\A i \in DOMAIN text : IsSpace(text[i]))

\* chunk_document has returned chunks for a document of headings only
C1_Witness ==
    /\ calls > 0
    /\ FindIter(text, 1) # <<>>
    /\ OutsideHeadings(text) = <<>>
    /\ chunks # <<>>

\* C2: every child chunk names as parent_id the chunk_id of exactly one
\* parent chunk of the same list, and no parent chunk has a parent_id.
C2_ChildrenLinkToOneParent ==
    calls > 0 =>
        \A i \in DOMAIN chunks :
            IF chunks[i].is_parent
            THEN chunks[i].parent_id = NoParent
            ELSE /\ chunks[i].parent_id # NoParent
                 /\ Cardinality({j \in DOMAIN chunks :
                                    /\ chunks[j].is_parent
                                    /\ chunks[j].chunk_id = chunks[i].parent_id}) = 1

\* a result with two parents, one of them with two children
C2_Witness ==
    /\ calls > 0
    /\ Cardinality({j \in DOMAIN chunks : chunks[j].is_parent}) >= 2
    /\ \E j \in DOMAIN chunks :
          Cardinality({i \in DOMAIN chunks :
                          chunks[i].parent_id = chunks[j].chunk_id}) >= 2

\* C3: the chunk_id values of one chunk_document result are pairwise
\* distinct, parents and children of all sections together.
C3_ChunkIdsDistinct ==
    calls > 0 =>
        \A i, j \in DOMAIN chunks :
            chunks[i].chunk_id = chunks[j].chunk_id => i = j

\* a second call has returned chunks of two differently labelled sections
C3_Witness ==
    /\ calls = 2
    /\ Len(chunks) >= 4
    /\ \E i, j \in DOMAIN chunks : chunks[i].chapter # chunks[j].chapter

\* the embedding capability fails on these sentences: the model cannot be
\* loaded, or encode or np.dot raises
EmbeddingFails(sentences) ==
    \/ embedder \in {"load_fails", "encode_raises", "dot_raises"}
    \/ embedder = "encode_raises_long" /\ Len(sentences) >= 3

\* the segments C4 names for a section: those of the fixed-window splitter
\* where the embedding capability fails, the merged sentences where it works
SegmentsOrFallback(section_text) ==
    LET sentences == SplitSentences(section_text)
    IN  IF Len(sentences) <= 1
        THEN IF sentences # <<>> THEN sentences ELSE <<section_text>>
        ELSE IF EmbeddingFails(sentences) THEN TokenSplit(section_text)
        ELSE MergeBySimilarity(sentences, Encode(sentences).value).segments

RECURSIVE ChunksOfSegments(_, _, _, _)
\* the chunks built, section after section, from SegmentsOrFallback
ChunksOfSegments(secs, md, counter, acc) ==
    IF secs = <<>> THEN acc
    ELSE LET loc == [source_file |-> Get(md, "source_file", <<>>),
                     page_num |-> Get(md, "page_num", NoPage),
                     chapter |-> Head(secs).chapter,
                     section |-> Head(secs).section]
             built == CreateParentChild(SegmentsOrFallback(Head(secs).text), loc, counter)
         IN  ChunksOfSegments(Tail(secs), md, built.counter,
                              acc \o [i \in DOMAIN built.chunks |->
                                         AssignContextPrefix(built.chunks[i], md)])

\* C4: a failure of the embedding capability never makes chunk_document
\* raise; the section it fails on is chunked from the segments of the
\* fixed-window splitter, and every other section is chunked as usual.
C4_EmbeddingFailureFallsBack ==
    calls > 0 /\ Strip(text) # <<>> =>
        /\ outcome = "returned"
        /\ UpToIds(chunks) = UpToIds(ChunksOfSegments(SplitByStructure(text), metadata, 0, <<>>))

\* under the stand-in that fails on long batches only, a document with a
\* section it fails on (split by windows into several segments) and a
\* section it embeds has been chunked
C4_Witness ==
    /\ calls > 0
    /\ embedder = "encode_raises_long"
    /\ embedding_model
    /\ \E k \in DOMAIN SplitByStructure(text) :
          /\ EmbeddingFails(SplitSentences(SplitByStructure(text)[k].text))
          /\ Len(TokenSplit(SplitByStructure(text)[k].text)) >= 2
    /\ \E k \in DOMAIN SplitByStructure(text) :
          /\ Len(SplitSentences(SplitByStructure(text)[k].text)) = 2
    /\ Len(chunks) >= 5

\* C5: a second call with the same text and metadata, on the same engine
\* or on a new engine with the same settings, returns a list that agrees
\* with the first call's position by position on everything but the
\* identifiers.
C5_SameResultUpToIds ==
    calls >= 2 => UpToIds(chunks) = UpToIds(prev_chunks)

\* the second call ran on the engine whose model the first call loaded,
\* and both merged sentences by similarity
C5_Witness ==
    /\ calls = 2
    /\ embedder = "sim_words"
    /\ embedding_model
    /\ uuid_counter = 2 * Len(chunks)
    /\ Len(chunks) >= 3
    /\ \E k \in DOMAIN SplitByStructure(text) :
          Len(SplitSentences(SplitByStructure(text)[k].text)) >= 2

----------------------------------------------------------------------------
(* Claims about ingestion (SpecIngest) and the context prefix (SpecPrefix) *)

\* the keys of the document metadata that C8 names
CarriedKeys == {"language", "ocr_confidence", "book_title", "author"}

\* C8: every chunk returned by chunk_document carries in its metadata bag
\* the language, OCR confidence, book title and author of the document
\* metadata passed to the call, and the record ingestion stores for the
\* chunk holds the language and OCR confidence read from that bag.
C8_ChunksCarryDocumentMetadata ==
    pc = "done" =>
        /\ \A i \in DOMAIN chunks : \A k \in CarriedKeys :
              /\ k \in DOMAIN chunks[i].metadata
              /\ chunks[i].metadata[k] = metadata[k]
        /\ \A j \in DOMAIN records :
              /\ records[j].language = metadata.language
              /\ records[j].ocr_confidence = metadata.ocr_confidence

\* the five clauses of the prefix in order, each with the condition under
\* which it appears; author_on is the condition of the author clause
PrefixClauses(chunk, md, author_on) ==
    <<[on |-> Get(md, "book_title", <<>>) # <<>>,
       clause |-> <<"From '">> \o Get(md, "book_title", <<>>) \o <<"'">>],
      [on |-> author_on,
       clause |-> <<"by ">> \o Get(md, "author", <<>>)],
      [on |-> chunk.chapter # <<>>,
       clause |-> <<"in chapter '">> \o chunk.chapter \o <<"'">>],
      [on |-> chunk.section # <<>>,
       clause |-> <<"section '">> \o chunk.section \o <<"'">>],
      [on |-> chunk.page_num # NoPage,
       clause |-> <<"(page ", ToString(chunk.page_num), ")">>]>>

\* the clauses that are on, joined by single spaces and closed by ". ";
\* the empty string when none is on
PrefixOf(clauses) ==
    LET present == SelectSeq(clauses, LAMBDA c : c.on)
    IN  IF present = <<>> THEN <<>>
        ELSE Join(<<SP>>, [i \in DOMAIN present |-> present[i].clause])
             \o <<".", SP>>

\* C9 as stated: the prefix holds a clause for exactly those of title,
\* author, chapter, section and page that are non-empty (page: not null),
\* in that order, joined by single spaces and closed by ". ", and is the
\* empty string when none applies.
C9_ClauseForEachNonEmptyValue ==
    pc = "prefixed" =>
        prefix_out = PrefixOf(PrefixClauses(prefix_chunk, metadata,
                                            Get(metadata, "author", <<>>) # <<>>))

\* C9 as amended: as stated, but the author clause appears exactly when
\* both the author and the title are non-empty.
C9_AuthorClauseNeedsTitle ==
    pc = "prefixed" =>
        prefix_out = PrefixOf(PrefixClauses(prefix_chunk, metadata,
                                            /\ Get(metadata, "author", <<>>) # <<>>
                                            /\ Get(metadata, "book_title", <<>>) # <<>>))

\* a prefix has been generated from an author without a title, for a chunk
\* with a chapter and a page
C9_Witness ==
    /\ pc = "prefixed"
    /\ Get(metadata, "book_title", <<>>) = <<>>
    /\ Get(metadata, "author", <<>>) # <<>>
    /\ prefix_chunk.chapter # <<>>
    /\ prefix_chunk.page_num # NoPage
    /\ prefix_out # <<>>

RECURSIVE PlainTexts(_)
\* the texts of the chunks built section after section, before any context
\* prefix is assigned
PlainTexts(secs) ==
    IF secs = <<>> THEN <<>>
    ELSE LET loc == [source_file |-> <<>>, page_num |-> NoPage,
                     chapter |-> <<>>, section |-> <<>>]
             built == CreateParentChild(SegmentsOrFallback(Head(secs).text), loc, 0).chunks
         IN  [i \in DOMAIN built |-> built[i].text] \o PlainTexts(Tail(secs))

\* the records stored for the chunks of the latest chunk_document call
StoredOfChunks ==
    SelectSeq(records, LAMBDA r : PositionOf(chunks, r.id) # 0)

\* C10: assigning context_prefix leaves every chunk's text as it was
\* built; the string given to the embedder is the prefix followed by the
\* text; and the stored record of a chunk holds the chunk's text without
\* the prefix, next to the prefix in a field of its own.
C10_PrefixOnlyInEmbeddedString ==
    pc = "done" =>
        /\ [i \in DOMAIN chunks |-> chunks[i].text] = PlainTexts(SplitByStructure(text))
        /\ DOMAIN embed_texts = DOMAIN chunks
        /\ \A i \in DOMAIN chunks :
              embed_texts[i] = chunks[i].context_prefix \o chunks[i].text
        /\ \A j \in DOMAIN records :
              LET i == PositionOf(chunks, records[j].id)
              IN  i # 0 =>
                    /\ records[j].text = chunks[i].text
                    /\ records[j].context_prefix = chunks[i].context_prefix
                    /\ records[j].vector = embed_texts[i]

\* records of chunks with a non-empty prefix have been stored, the
\* embedded string of each longer than its text
C10_Witness ==
    /\ pc = "done"
    /\ Len(StoredOfChunks) >= 3
    /\ \A i \in DOMAIN chunks :
          /\ chunks[i].context_prefix # <<>>
          /\ Len(embed_texts[i]) > Len(chunks[i].text)
    /\ \E j \in DOMAIN records : records[j].chapter # <<>>

----------------------------------------------------------------------------
(* QueryEngine (src/src/agent_tools.py).  A query is a sequence of one-    *)
(* character strings; a character outside ASCII is written as its code     *)
(* point, "U+BE44".                                                        *)

UpperCase == <<"A", "B", "C", "D", "E", "F", "G", "H", "I", "J", "K", "L", "M",
               "N", "O", "P", "Q", "R", "S", "T", "U", "V", "W", "X", "Y", "Z">>
LowerCase == <<"a", "b", "c", "d", "e", "f", "g", "h", "i", "j", "k", "l", "m",
               "n", "o", "p", "q", "r", "s", "t", "u", "v", "w", "x", "y", "z">>

\* str.lower()
Lower(s) ==
    [i \in DOMAIN s |->
        IF \E k \in DOMAIN UpperCase : UpperCase[k] = s[i]
        THEN LowerCase[CHOOSE k \in DOMAIN UpperCase : UpperCase[k] = s[i]]
        ELSE s[i]]

\* `sub in s` for two strings
In(sub, s) ==
    \E i \in 1..(Len(s) - Len(sub) + 1) : SubSeq(s, i, i + Len(sub) - 1) = sub

COMPARISON_KEYWORDS ==
    << <<"c", "o", "m", "p", "a", "r", "e">>,
       <<"c", "o", "m", "p", "a", "r", "i", "s", "o", "n">>,
       <<"v", "s">>,
       <<"v", "e", "r", "s", "u", "s">>,
       <<"d", "i", "f", "f", "e", "r", "e", "n", "c", "e">>,
       <<"d", "i", "f", "f", "e", "r">>,
       <<"c", "o", "n", "t", "r", "a", "s", "t">>,
       <<"s", "i", "m", "i", "l", "a", "r">>,
       <<"u", "n", "l", "i", "k", "e">>,
       <<"U+BE44", "U+AD50">>,
       <<"U+CC28", "U+C774">>,
       <<"U+B2E4", "U+B978">> >>

CONCEPT_KEYWORDS ==
    << <<"e", "x", "p", "l", "a", "i", "n">>,
       <<"w", "h", "a", "t", " ", "i", "s">>,
       <<"d", "e", "f", "i", "n", "e">>,
       <<"d", "e", "f", "i", "n", "i", "t", "i", "o", "n">>,
       <<"c", "o", "n", "c", "e", "p", "t">>,
       <<"t", "h", "e", "o", "r", "y">>,
       <<"U+C758", "U+BBF8">>,
       <<"U+AC1C", "U+B150">>,
       <<"U+C124", "U+BA85">>,
       <<"U+C815", "U+C758">> >>

FACTUAL_KEYWORDS ==
    << <<"w", "h", "o">>,
       <<"w", "h", "e", "n">>,
       <<"w", "h", "e", "r", "e">>,
       <<"h", "o", "w", " ", "m", "a", "n", "y">>,
       <<"w", "h", "i", "c", "h", " ", "y", "e", "a", "r">>,
       <<"U+B204", "U+AC00">>,
       <<"U+C5B8", "U+C81C">>,
       <<"U+C5B4", "U+B514">> >>

RECURSIVE AnyKeyword(_, _)
\* `for kw in keywords: if kw in query_lower: return ...` reaches its return
AnyKeyword(keywords, query_lower) ==
    IF keywords = <<>> THEN FALSE
    ELSE IF In(Head(keywords), query_lower) THEN TRUE
    ELSE AnyKeyword(Tail(keywords), query_lower)

\* _classify_query with the concept keywords tried before the comparison
\* keywords
ClassifyQueryConceptFirst(query) ==
    LET query_lower == Lower(query)
    IN  IF AnyKeyword(CONCEPT_KEYWORDS, query_lower) THEN "concept_explanation"
        ELSE IF AnyKeyword(COMPARISON_KEYWORDS, query_lower) THEN "cross_book_comparison"
        ELSE IF AnyKeyword(FACTUAL_KEYWORDS, query_lower) THEN "fact_lookup"
        ELSE IF Len(Split(query)) > 8 THEN "concept_explanation"
        ELSE "fact_lookup"

\* QueryEngine._classify_query
ClassifyQuery(query) ==
    LET query_lower == Lower(query)
    IN  IF AnyKeyword(COMPARISON_KEYWORDS, query_lower) THEN "cross_book_comparison"
        ELSE IF AnyKeyword(CONCEPT_KEYWORDS, query_lower) THEN "concept_explanation"
        ELSE IF AnyKeyword(FACTUAL_KEYWORDS, query_lower) THEN "fact_lookup"
        ELSE IF Len(Split(query)) > 8 THEN "concept_explanation"
        ELSE "fact_lookup"

----------------------------------------------------------------------------
(* Bounded inputs: queries *)

\* Phrases a query is assembled from: keywords of the three lists in upper
\* and lower case, words that hold a keyword inside ("canvas", "whole"),
\* the two halves of a two-word keyword, and a word that matches nothing.
QueryPhrases ==
    { <<"C", "o", "m", "p", "a", "r", "e">>,
      <<"v", "s">>,
      <<"c", "a", "n", "v", "a", "s">>,
      <<"E", "x", "p", "l", "a", "i", "n">>,
      <<"w", "h", "a", "t", " ", "i", "s">>,
      <<"w", "h", "a", "t">>,
      <<"i", "s">>,
      <<"W", "H", "O">>,
      <<"w", "h", "o", "l", "e">>,
      <<"h", "o", "w">>,
      <<"m", "a", "n", "y">>,
      <<"x">>,
      <<"U+BE44", "U+AD50">>,
      <<"U+AC1C", "U+B150">>,
      <<"U+C5B8", "U+C81C">> }

MaxPhrases == 2
MaxPadding == 9

\* the word that pads a query
Padding(n) == [i \in 1..n |-> <<"x">>]

\* q is a query: up to MaxPhrases phrases and up to MaxPadding padding
\* words, separated by one or by two spaces
IsQuery(q) ==
    \E n \in 0..MaxPhrases : \E ps \in [1..n -> QueryPhrases] :
    \E pad \in 0..MaxPadding : \E sep \in {<<SP>>, <<SP, SP>>} :
        q = Join(sep, ps \o Padding(pad))

\* the chunking side at rest
ChunkUnused ==
    /\ text = <<>>
    /\ sections = <<>>
    /\ Unused

----------------------------------------------------------------------------
(* Specification SpecClassify: _classify_query applied to a query *)

InitClassify ==
    /\ pc = "init"
    /\ IsQuery(query_text)
    /\ top_k = 0
    /\ corpus = <<>>
    /\ entities = <<>>
    /\ relationships = <<>>
    /\ response = <<>>
    /\ call_log = <<>>
    /\ raise_at = 0
    /\ fn_in = <<>>
    /\ fn_out = <<>>
    /\ ChunkUnused

\* self._classify_query(query_text)
Classify ==
    /\ pc = "init"
    /\ fn_out' = ClassifyQuery(query_text)
    /\ pc' = "classified"
    /\ UNCHANGED <<query_text, top_k, corpus, entities, relationships, response,
                   call_log, raise_at, fn_in>>
    /\ UNCHANGED chunkData

NextClassify == Classify

SpecClassify == InitClassify /\ [][NextClassify]_vars

----------------------------------------------------------------------------
(* Claims about the query classifier (SpecClassify) *)

\* the elements of a list
Range(seq) == {seq[i] : i \in DOMAIN seq}

\* some keyword of the list occurs in the string
Occurs(keywords, s) == \E kw \in Range(keywords) : In(kw, s)

\* C11: _classify_query returns one of the three query types, namely
\* cross_book_comparison if a comparison keyword occurs in the lower-cased
\* query, else concept_explanation if a concept keyword occurs, else
\* fact_lookup if a factual keyword occurs, else concept_explanation for
\* more than 8 whitespace-separated tokens and fact_lookup otherwise.
C11_ClassifiesByPriority ==
    pc = "classified" =>
        LET q == Lower(query_text)
            comparison == Occurs(COMPARISON_KEYWORDS, q)
            concept == Occurs(CONCEPT_KEYWORDS, q)
            factual == Occurs(FACTUAL_KEYWORDS, q)
            long == Len(Split(query_text)) > 8
        IN  /\ fn_out \in {"fact_lookup", "concept_explanation", "cross_book_comparison"}
            /\ comparison => fn_out = "cross_book_comparison"
            /\ ~comparison /\ concept => fn_out = "concept_explanation"
            /\ ~comparison /\ ~concept /\ factual => fn_out = "fact_lookup"
            /\ ~comparison /\ ~concept /\ ~factual /\ long => fn_out = "concept_explanation"
            /\ ~comparison /\ ~concept /\ ~factual /\ ~long => fn_out = "fact_lookup"

\* a query of more than 8 tokens that holds a comparison and a concept
\* keyword has been classified
C11_Witness ==
    /\ pc = "classified"
    /\ Occurs(COMPARISON_KEYWORDS, Lower(query_text))
    /\ Occurs(CONCEPT_KEYWORDS, Lower(query_text))
    /\ Len(Split(query_text)) > 8
    /\ fn_out = "cross_book_comparison"

----------------------------------------------------------------------------
(* QueryEngine: conversion, parent expansion and merge of results *)

\* `None` where a record (a dict) was asked for
NoRecord == <<>>

\* SearchResult(text, score, source_file, book_title, chapter, section,
\* page_num); scores and distances are in hundredths
SearchResult(txt, score, source_file, book_title, chapter, section, page_num) ==
    [text |-> txt, score |-> score, source_file |-> source_file,
     book_title |-> book_title, chapter |-> chapter, section |-> section,
     page_num |-> page_num]

\* QueryEngine._to_search_result: score = 1.0 - _distance; a page number
\* that is null or 0 becomes None
ToSearchResult(raw_result) ==
    SearchResult(raw_result.text, 100 - raw_result.distance,
                 raw_result.source_file, raw_result.book_title,
                 raw_result.chapter, raw_result.section,
                 IF raw_result.page_num # NoPage /\ raw_result.page_num # 0
                 THEN raw_result.page_num ELSE NoPage)

\* A call of a collaborator (embedder, vector store, graph store) is
\* appended to the log of the query; the call that brings the log to
\* length fail_at raises (fail_at = 0: no call raises).
Called(log, op, arg) == Append(log, [op |-> op, arg |-> arg])
Raises(log, fail_at) == Len(log) = fail_at

\* VectorDatabase.get_by_id / get_parent: the row with this id, or None
GetById(rows, doc_id) ==
    LET S == {j \in DOMAIN rows : rows[j].id = doc_id}
    IN  IF S = {} THEN NoRecord ELSE rows[CHOOSE j \in S : \A k \in S : j <= k]

\* "\n---\n"
ParentSeparator == <<NL, "-", "-", "-", NL>>

\* the body of `for sr, raw in zip(search_results, raw_results)`, without
\* the test that the raw record is not itself a parent
ExpandStepParentsToo(sr, raw, rows, fail_at, st) ==
    IF raw.parent_id # NoParent
    THEN LET cached == raw.parent_id \in DOMAIN st.seen_parents
             log == IF cached THEN st.log
                    ELSE Called(st.log, "get_parent", raw.parent_id)
         IN  IF ~cached /\ Raises(log, fail_at)
             THEN [st EXCEPT !.raised = TRUE, !.log = log]
             ELSE LET seen == IF cached THEN st.seen_parents
                              ELSE [k \in DOMAIN st.seen_parents \cup {raw.parent_id} |->
                                       IF k = raw.parent_id THEN GetById(rows, k)
                                       ELSE st.seen_parents[k]]
                      parent == seen[raw.parent_id]
                  IN  [st EXCEPT !.log = log, !.seen_parents = seen,
                         !.expanded = Append(@,
                             IF parent # NoRecord
                             THEN SearchResult(parent.text \o ParentSeparator \o sr.text,
                                               sr.score, sr.source_file, sr.book_title,
                                               sr.chapter, sr.section, sr.page_num)
                             ELSE sr)]
    ELSE [st EXCEPT !.expanded = Append(@, sr)]

\* ExpandStep that caches a lookup only when it found a parent
ExpandStepForgetsMisses(sr, raw, rows, fail_at, st) ==
    IF raw.parent_id # NoParent /\ ~raw.is_parent
    THEN LET cached == raw.parent_id \in DOMAIN st.seen_parents
             log == IF cached THEN st.log
                    ELSE Called(st.log, "get_parent", raw.parent_id)
             parent == IF cached THEN st.seen_parents[raw.parent_id]
                       ELSE GetById(rows, raw.parent_id)
         IN  IF ~cached /\ Raises(log, fail_at)
             THEN [st EXCEPT !.raised = TRUE, !.log = log]
             ELSE [st EXCEPT !.log = log,
                     !.seen_parents =
                         IF cached \/ parent = NoRecord THEN @
                         ELSE [k \in DOMAIN @ \cup {raw.parent_id} |->
                                  IF k = raw.parent_id THEN parent ELSE @[k]],
                     !.expanded = Append(@,
                         IF parent # NoRecord
                         THEN SearchResult(parent.text \o ParentSeparator \o sr.text,
                                           sr.score, sr.source_file, sr.book_title,
                                           sr.chapter, sr.section, sr.page_num)
                         ELSE sr)]
    ELSE [st EXCEPT !.expanded = Append(@, sr)]

\* the body of `for sr, raw in zip(search_results, raw_results)`:
\* seen_parents caches the lookup of each parent_id, found or not
ExpandStep(sr, raw, rows, fail_at, st) ==
    IF raw.parent_id # NoParent /\ ~raw.is_parent
    THEN LET cached == raw.parent_id \in DOMAIN st.seen_parents
             log == IF cached THEN st.log
                    ELSE Called(st.log, "get_parent", raw.parent_id)
         IN  IF ~cached /\ Raises(log, fail_at)
             THEN [st EXCEPT !.raised = TRUE, !.log = log]
             ELSE LET seen == IF cached THEN st.seen_parents
                              ELSE [k \in DOMAIN st.seen_parents \cup {raw.parent_id} |->
                                       IF k = raw.parent_id THEN GetById(rows, k)
                                       ELSE st.seen_parents[k]]
                      parent == seen[raw.parent_id]
                  IN  [st EXCEPT !.log = log, !.seen_parents = seen,
                         !.expanded = Append(@,
                             IF parent # NoRecord
                             THEN SearchResult(parent.text \o ParentSeparator \o sr.text,
                                               sr.score, sr.source_file, sr.book_title,
                                               sr.chapter, sr.section, sr.page_num)
                             ELSE sr)]
    ELSE [st EXCEPT !.expanded = Append(@, sr)]

RECURSIVE ExpandLoop(_, _, _, _, _, _)
\* the loop over zip(search_results, raw_results), from pair i
ExpandLoop(search_results, raw_results, rows, fail_at, i, st) ==
    IF st.raised \/ i > Len(search_results) \/ i > Len(raw_results) THEN st
    ELSE ExpandLoop(search_results, raw_results, rows, fail_at, i + 1,
                    ExpandStep(search_results[i], raw_results[i], rows, fail_at, st))

\* QueryEngine._expand_parents against the rows of the vector store:
\* [raised, expanded, seen_parents, log]
ExpandParents(search_results, raw_results, rows, log, fail_at) ==
    ExpandLoop(search_results, raw_results, rows, fail_at, 1,
               [raised |-> FALSE, expanded |-> <<>>, seen_parents |-> <<>>,
                log |-> log])

\* the vector results one round of the merge takes: "Add 3 vector results
\* for every 1 graph result"
VectorsPerRound == 3

RECURSIVE InterleaveLoopGraphFirst(_, _, _, _, _)
\* the merge loop with the graph result of a round ahead of its vector
\* results
InterleaveLoopGraphFirst(vector_results, graph_results, vi, gi, merged) ==
    IF ~(vi < Len(vector_results) \/ gi < Len(graph_results)) THEN merged
    ELSE LET n == IF Len(vector_results) - vi < VectorsPerRound
                  THEN Len(vector_results) - vi ELSE VectorsPerRound
             g == IF gi < Len(graph_results) THEN 1 ELSE 0
         IN  InterleaveLoopGraphFirst(vector_results, graph_results, vi + n, gi + g,
                 merged \o SubSeq(graph_results, gi + 1, gi + g)
                        \o SubSeq(vector_results, vi + 1, vi + n))

RECURSIVE InterleaveLoop(_, _, _, _, _)
\* `while vi < len(vector_results) or gi < len(graph_results)`: one round
\* appends up to 3 vector results, then one graph result if any is left
InterleaveLoop(vector_results, graph_results, vi, gi, merged) ==
    IF ~(vi < Len(vector_results) \/ gi < Len(graph_results)) THEN merged
    ELSE LET n == IF Len(vector_results) - vi < VectorsPerRound
                  THEN Len(vector_results) - vi ELSE VectorsPerRound
             g == IF gi < Len(graph_results) THEN 1 ELSE 0
         IN  InterleaveLoop(vector_results, graph_results, vi + n, gi + g,
                 merged \o SubSeq(vector_results, vi + 1, vi + n)
                        \o SubSeq(graph_results, gi + 1, gi + g))

\* QueryEngine._merge_results
MergeResults(vector_results, graph_results) ==
    IF graph_results = <<>> THEN vector_results
    ELSE InterleaveLoop(vector_results, graph_results, 0, 0, <<>>)

----------------------------------------------------------------------------
(* Bounded inputs: rows of the vector store and results *)

\* a row of the documents table, as a search returns it
Row(id, txt, distance, parent_id, is_parent, page_num) ==
    [id |-> id, text |-> txt, distance |-> distance, parent_id |-> parent_id,
     is_parent |-> is_parent, source_file |-> <<"book.pdf">>,
     book_title |-> <<"Test Book">>, chapter |-> <<"a">>, section |-> <<>>,
     page_num |-> page_num]

\* Rows of a store: a parent, two of its children (one on page 0), a child
\* whose parent_id names no row, a row with an empty parent_id that is no
\* parent, and a row flagged is_parent that names a parent.
StoreRows ==
    << Row(1, <<"P">>, 10, NoParent, TRUE, 3),
       Row(2, <<"C">>, 20, 1, FALSE, 3),
       Row(3, <<"D">>, 30, 1, FALSE, 0),
       Row(4, <<"E">>, 40, 9, FALSE, NoPage),
       Row(5, <<"F">>, 50, NoParent, FALSE, 3),
       Row(6, <<"G">>, 60, 1, TRUE, 3) >>

\* a second child whose parent_id names the row the first one misses
SecondOrphan == Row(7, <<"H">>, 70, 9, FALSE, 3)

\* the rows of StoreRows at the positions S, in the order of StoreRows
RowsAt(S) == SelectSeq(StoreRows, LAMBDA r : r.id \in S)

MaxResults == 3

\* the lists of up to MaxResults different rows of the store `rows`
ResultLists(rows) ==
    {r \in UNION {[1..n -> Range(rows)] : n \in 0..MaxResults} :
        \A i, j \in DOMAIN r : r[i] = r[j] => i = j}

MaxVector == 7
MaxGraph == 3

\* the i-th vector result and the i-th graph result handed to the merge
VectorResult(i) ==
    SearchResult(<<"V", ToString(i)>>, 100 - i, <<"book.pdf">>, <<"Test Book">>,
                 <<"a">>, <<>>, NoPage)
GraphResult(i) ==
    SearchResult(<<"G", ToString(i)>>, 50, <<"Test Book">>, <<"Test Book">>,
                 <<>>, <<>>, NoPage)

\* the query side at rest, but for the store and the helper's arguments
FusionUnused ==
    /\ query_text = <<>>
    /\ top_k = 0
    /\ entities = <<>>
    /\ relationships = <<>>
    /\ response = <<>>
    /\ call_log = <<>>
    /\ raise_at = 0
    /\ fn_out = <<>>

----------------------------------------------------------------------------
(* Specification SpecFusion: _expand_parents and _merge_results, each      *)
(* applied to its arguments                                                *)

InitFusion ==
    /\ pc = "init"
    /\ \/ /\ \E S \in SUBSET (1..Len(StoreRows)) :
                corpus \in {RowsAt(S), RowsAt(S) \o <<SecondOrphan>>}
          /\ \E rs \in ResultLists(corpus) :
                fn_in = [op |-> "expand",
                         search_results |-> [i \in DOMAIN rs |-> ToSearchResult(rs[i])],
                         raw_results |-> rs]
       \/ /\ corpus = <<>>
          /\ \E nv \in 0..MaxVector, ng \in 0..MaxGraph :
                fn_in = [op |-> "merge",
                         vector_results |-> [i \in 1..nv |-> VectorResult(i)],
                         graph_results |-> [i \in 1..ng |-> GraphResult(i)]]
    /\ FusionUnused
    /\ ChunkUnused

\* self._expand_parents(search_results, results)
ExpandParentsCall ==
    /\ pc = "init"
    /\ fn_in.op = "expand"
    /\ fn_out' = ExpandParents(fn_in.search_results, fn_in.raw_results, corpus,
                               <<>>, raise_at)
    /\ pc' = "expanded"
    /\ UNCHANGED <<query_text, top_k, corpus, entities, relationships, response,
                   call_log, raise_at, fn_in>>
    /\ UNCHANGED chunkData

\* self._merge_results(search_results, graph_results)
MergeResultsCall ==
    /\ pc = "init"
    /\ fn_in.op = "merge"
    /\ fn_out' = MergeResults(fn_in.vector_results, fn_in.graph_results)
    /\ pc' = "merged"
    /\ UNCHANGED <<query_text, top_k, corpus, entities, relationships, response,
                   call_log, raise_at, fn_in>>
    /\ UNCHANGED chunkData

NextFusion == ExpandParentsCall \/ MergeResultsCall

SpecFusion == InitFusion /\ [][NextFusion]_vars

----------------------------------------------------------------------------
(* Claims about the result fuser (SpecFusion) *)

\* the raw record names a parent that the store holds, and is no parent
HasResolvableParent(raw, rows) ==
    /\ ~raw.is_parent
    /\ raw.parent_id # NoParent
    /\ \E j \in DOMAIN rows : rows[j].id = raw.parent_id

\* C12: _expand_parents returns one result per input result, in order; a
\* result whose raw record is no parent and names a parent the store holds
\* has the text parent text + "\n---\n" + child text and every other field
\* as before; every other result is returned unchanged.
C12_ExpandsResolvableChildren ==
    pc = "expanded" =>
        LET srs == fn_in.search_results
            raws == fn_in.raw_results
            out == fn_out.expanded
        IN  /\ ~fn_out.raised
            /\ Len(out) = Len(srs)
            /\ \A i \in DOMAIN srs :
                  IF HasResolvableParent(raws[i], corpus)
                  THEN /\ \E j \in DOMAIN corpus :
                             /\ corpus[j].id = raws[i].parent_id
                             /\ out[i].text = corpus[j].text \o <<NL, "-", "-", "-", NL>>
                                              \o srs[i].text
                       /\ \A f \in {"score", "source_file", "book_title",
                                    "chapter", "section", "page_num"} :
                             out[i][f] = srs[i][f]
                  ELSE out[i] = srs[i]

\* a list with a child whose parent was found, a child whose parent is not
\* stored and a row that is itself a parent and names a stored parent has
\* been expanded
C12_Witness ==
    /\ pc = "expanded"
    /\ Len(fn_out.expanded) = 3
    /\ \E i \in DOMAIN fn_in.raw_results :
          HasResolvableParent(fn_in.raw_results[i], corpus)
    /\ \E i \in DOMAIN fn_in.raw_results :
          /\ ~fn_in.raw_results[i].is_parent
          /\ fn_in.raw_results[i].parent_id # NoParent
          /\ ~HasResolvableParent(fn_in.raw_results[i], corpus)
    /\ \E i \in DOMAIN fn_in.raw_results :
          /\ fn_in.raw_results[i].is_parent
          /\ fn_in.raw_results[i].parent_id # NoParent
          /\ GetById(corpus, fn_in.raw_results[i].parent_id) # NoRecord

\* the number of vector results among the first p elements of a merged list
VectorsBefore(merged, p, vector_results) ==
    Cardinality({q \in 1..(p - 1) : merged[q] \in Range(vector_results)})

\* C13: the merged list holds every vector and every graph result exactly
\* once, each list in its own order; the k-th graph result comes after
\* exactly min(3k, number of vector results) vector results; 5 vector and 2
\* graph results give V1,V2,V3,G1,V4,V5,G2; without graph results the
\* vector list is returned as it is.
C13_ThreeToOneInterleave ==
    pc = "merged" =>
        LET v == fn_in.vector_results
            g == fn_in.graph_results
            m == fn_out
        IN  /\ g = <<>> => m = v
            /\ Len(m) = Len(v) + Len(g)
            /\ SelectSeq(m, LAMBDA r : r \in Range(v)) = v
            /\ SelectSeq(m, LAMBDA r : r \in Range(g)) = g
            /\ \A k \in DOMAIN g :
                  \E p \in DOMAIN m :
                      /\ m[p] = g[k]
                      /\ VectorsBefore(m, p, v) =
                             IF 3 * k < Len(v) THEN 3 * k ELSE Len(v)
            /\ Len(v) = 5 /\ Len(g) = 2 =>
                  m = <<v[1], v[2], v[3], g[1], v[4], v[5], g[2]>>

\* 5 vector results and 2 graph results have been merged
C13_Witness ==
    /\ pc = "merged"
    /\ Len(fn_in.vector_results) = 5
    /\ Len(fn_in.graph_results) = 2
    /\ Len(fn_out) = 7

----------------------------------------------------------------------------
(* QueryEngine._graph_augment and the KnowledgeGraph lookups it makes *)

QUOTE == "\""

\* The characters of the model's alphabet that regex \w does not match;
\* every other character (letters, digits, Hangul) is a word character.
NonWordChars == {SP, NL, QUOTE, "?", ".", ",", "-", "'", "(", ")"}
IsWordChar(c) == c \notin NonWordChars
IsUpper(c) == c \in Range(UpperCase)
IsLower(c) == c \in Range(LowerCase)

\* the position of the first `"` of s at or after i, 0 if there is none
NextQuote(s, i) ==
    LET S == {j \in i..Len(s) : s[j] = QUOTE}
    IN  IF S = {} THEN 0 ELSE CHOOSE j \in S : \A k \in S : j <= k

RECURSIVE QuotedTerms(_, _)
\* re.findall(r'"([^"]+)"', query), scanning from position i
QuotedTerms(s, i) ==
    LET open == NextQuote(s, i)
        close == IF open = 0 THEN 0 ELSE NextQuote(s, open + 1)
    IN  IF open = 0 \/ close = 0 THEN <<>>
        ELSE IF close = open + 1 THEN QuotedTerms(s, close)
        ELSE <<SubSeq(s, open + 1, close - 1)>> \o QuotedTerms(s, close + 1)

RECURSIVE LowerRunEnd(_, _)
\* the position after the run of lower-case letters that starts at i
LowerRunEnd(s, i) ==
    IF i <= Len(s) /\ IsLower(s[i]) THEN LowerRunEnd(s, i + 1) ELSE i

\* [A-Z][a-z]+ at position i: the position after the word, 0 if no match
CapitalizedWordEnd(s, i) ==
    IF i + 1 <= Len(s) /\ IsUpper(s[i]) /\ IsLower(s[i + 1])
    THEN LowerRunEnd(s, i + 1) ELSE 0

\* \b after a word character that ends at position e - 1
BoundaryAfter(s, e) == e > Len(s) \/ ~IsWordChar(s[e])

RECURSIVE PhraseEnd(_, _, _)
\* (?:\s+[A-Z][a-z]+)*\b after a capitalized word that ends before e;
\* `best` is the end of the longest phrase so far that a \b can follow
PhraseEnd(s, e, best) ==
    LET b == IF BoundaryAfter(s, e) THEN e ELSE best
        spaces == SpaceRun(s, e)
        next == IF spaces > 0 THEN CapitalizedWordEnd(s, e + spaces) ELSE 0
    IN  IF next = 0 THEN b ELSE PhraseEnd(s, next, b)

RECURSIVE CapitalizedPhrases(_, _)
\* re.findall(r'\b([A-Z][a-z]+(?:\s+[A-Z][a-z]+)*)\b', query), from i
CapitalizedPhrases(s, i) ==
    IF i > Len(s) THEN <<>>
    ELSE LET first == IF i = 1 \/ ~IsWordChar(s[i - 1])
                      THEN CapitalizedWordEnd(s, i) ELSE 0
             e == IF first = 0 THEN 0 ELSE PhraseEnd(s, first, 0)
         IN  IF e = 0 THEN CapitalizedPhrases(s, i + 1)
             ELSE <<SubSeq(s, i, e - 1)>> \o CapitalizedPhrases(s, e)

\* list[:n]
Take(list, n) == SubSeq(list, 1, IF n < Len(list) THEN n ELSE Len(list))

\* CandidateTerms that prefers capitalized phrases to quoted terms
CandidateTermsPhrasesFirst(query) ==
    LET quoted == QuotedTerms(query, 1)
        phrases == CapitalizedPhrases(query, 1)
        words == SelectSeq(Split(query), LAMBDA w : Len(w) > 4)
    IN  IF phrases # <<>> THEN phrases
        ELSE IF quoted # <<>> THEN quoted
        ELSE Take(words, 3)

\* the candidate terms of _graph_augment: quoted terms, else capitalized
\* phrases, else the first 3 words longer than 4 characters
CandidateTerms(query) ==
    LET quoted == QuotedTerms(query, 1)
        phrases == CapitalizedPhrases(query, 1)
        words == SelectSeq(Split(query), LAMBDA w : Len(w) > 4)
    IN  IF quoted # <<>> THEN quoted
        ELSE IF phrases # <<>> THEN phrases
        ELSE Take(words, 3)

\* Entity(name, entity_type, description, source_book); `None` is NoRecord
Entity(name, entity_type, description, source_book) ==
    [name |-> name, entity_type |-> entity_type, description |-> description,
     source_book |-> source_book]

\* Relationship(source, target, relationship_type)
Relationship(source, target, relationship_type) ==
    [source |-> source, target |-> target, relationship_type |-> relationship_type]

\* KnowledgeGraph.search_entity on a graph whose `entities` dict is the list
\* of [key, entity] in insertion order: the entity under the key `name`,
\* else the first entity whose lower-cased key holds the lower-cased name
SearchEntity(graph, name) ==
    LET exact == {j \in DOMAIN graph.entities : graph.entities[j].key = name}
        partial == {j \in DOMAIN graph.entities :
                       In(Lower(name), Lower(graph.entities[j].key))}
        first(S) == CHOOSE j \in S : \A k \in S : j <= k
    IN  IF exact # {} THEN graph.entities[first(exact)].entity
        ELSE IF partial # {} THEN graph.entities[first(partial)].entity
        ELSE NoRecord

\* KnowledgeGraph.get_relationships(entity_name)
GetRelationships(graph, entity_name) ==
    SelectSeq(graph.relationships,
              LAMBDA rel : rel.source = entity_name \/ rel.target = entity_name)

\* f"  {r.source} --[{r.relationship_type}]--> {r.target}"
RelLine(r) ==
    <<SP, SP>> \o r.source \o <<SP, "-", "-", "[">> \o r.relationship_type
    \o <<"]", "-", "-", ">", SP>> \o r.target

\* the textual summary of an entity and its first 10 relationships
GraphText(entity, rels) ==
    <<"Knowledge Graph ", "U+2014", SP>> \o entity.name \o <<SP, "(">>
    \o entity.entity_type \o <<")", NL>>
    \o <<"Description: ">> \o entity.description \o <<NL>>
    \o <<"Relationships:", NL>>
    \o Join(<<NL>>, [i \in DOMAIN Take(rels, 10) |-> RelLine(rels[i])])

\* the body of `for term in terms[:5]`
AugmentStep(graph, term, fail_at, st) ==
    LET log1 == Called(st.log, "search_entity", term)
        entity == SearchEntity(graph, term)
        log2 == Called(log1, "get_relationships", entity.name)
        rels == GetRelationships(graph, entity.name)
    IN  IF Raises(log1, fail_at) THEN [st EXCEPT !.raised = TRUE, !.log = log1]
        ELSE IF entity = NoRecord THEN [st EXCEPT !.log = log1]
        ELSE IF Raises(log2, fail_at) THEN [st EXCEPT !.raised = TRUE, !.log = log2]
        ELSE IF rels = <<>> THEN [st EXCEPT !.log = log2]
        ELSE [st EXCEPT !.log = log2,
                !.graph_results = Append(@,
                    SearchResult(GraphText(entity, rels), 50, entity.source_book,
                                 entity.source_book, <<>>, <<>>, NoPage))]

RECURSIVE AugmentLoop(_, _, _, _)
AugmentLoop(graph, terms, fail_at, st) ==
    IF st.raised \/ terms = <<>> THEN st
    ELSE AugmentLoop(graph, Tail(terms), fail_at,
                     AugmentStep(graph, Head(terms), fail_at, st))

\* QueryEngine._graph_augment: [raised, graph_results, log]
GraphAugment(query, graph, log, fail_at) ==
    AugmentLoop(graph, Take(CandidateTerms(query), 5), fail_at,
                [raised |-> FALSE, graph_results |-> <<>>, log |-> log])

----------------------------------------------------------------------------
(* QueryEngine.query *)

\* VectorDatabase.hybrid_search(query, query_embedding, top_k) on a store
\* whose rows are ranked for the query: `.limit(top_k)` of the ranking
HybridSearch(rows, k) == Take(rows, k)

\* what a query call that raised leaves: the error of the failing call
Failed(query_type, log) ==
    [raised |-> TRUE, error |-> log[Len(log)].op, sources |-> <<>>,
     query_type |-> query_type, log |-> log]

\* query with graph augmentation for every query type
QueryAlwaysAugments(query, k, rows, graph, fail_at) ==
    LET query_type == ClassifyQuery(query)
        log1 == Called(<<>>, "embed_query", query)
        log2 == Called(log1, "hybrid_search", k)
        results == HybridSearch(rows, k)
        search_results == [i \in DOMAIN results |-> ToSearchResult(results[i])]
        ex == ExpandParents(search_results, results, rows, log2, fail_at)
        ga == GraphAugment(query, graph, ex.log, fail_at)
    IN  IF Raises(log1, fail_at) THEN Failed(query_type, log1)
        ELSE IF Raises(log2, fail_at) THEN Failed(query_type, log2)
        ELSE IF ex.raised THEN Failed(query_type, ex.log)
        ELSE IF ga.raised THEN Failed(query_type, ga.log)
        ELSE [raised |-> FALSE, error |-> "",
              sources |-> Take(MergeResults(ex.expanded, ga.graph_results), k),
              query_type |-> query_type, log |-> ga.log]

\* query with the vector results cut to top_k before the merge, not after
QueryTruncatesBeforeMerge(query, k, rows, graph, fail_at) ==
    LET query_type == ClassifyQuery(query)
        log1 == Called(<<>>, "embed_query", query)
        log2 == Called(log1, "hybrid_search", k)
        results == HybridSearch(rows, k)
        search_results == [i \in DOMAIN results |-> ToSearchResult(results[i])]
        ex == ExpandParents(search_results, results, rows, log2, fail_at)
        augment == query_type \in {"concept_explanation", "cross_book_comparison"}
        ga == GraphAugment(query, graph, ex.log, fail_at)
    IN  IF Raises(log1, fail_at) THEN Failed(query_type, log1)
        ELSE IF Raises(log2, fail_at) THEN Failed(query_type, log2)
        ELSE IF ex.raised THEN Failed(query_type, ex.log)
        ELSE IF ~augment
        THEN [raised |-> FALSE, error |-> "", sources |-> Take(ex.expanded, k),
              query_type |-> query_type, log |-> ex.log]
        ELSE IF ga.raised THEN Failed(query_type, ga.log)
        ELSE [raised |-> FALSE, error |-> "",
              sources |-> MergeResults(Take(ex.expanded, k), ga.graph_results),
              query_type |-> query_type, log |-> ga.log]

\* query with a second hybrid_search when the first one raises
QueryRetriesSearch(query, k, rows, graph, fail_at) ==
    LET query_type == ClassifyQuery(query)
        log1 == Called(<<>>, "embed_query", query)
        first == Called(log1, "hybrid_search", k)
        log2 == IF Raises(first, fail_at) THEN Called(first, "hybrid_search", k)
                ELSE first
        results == HybridSearch(rows, k)
        search_results == [i \in DOMAIN results |-> ToSearchResult(results[i])]
        ex == ExpandParents(search_results, results, rows, log2, fail_at)
        augment == query_type \in {"concept_explanation", "cross_book_comparison"}
        ga == GraphAugment(query, graph, ex.log, fail_at)
    IN  IF Raises(log1, fail_at) THEN Failed(query_type, log1)
        ELSE IF ex.raised THEN Failed(query_type, ex.log)
        ELSE IF ~augment
        THEN [raised |-> FALSE, error |-> "", sources |-> Take(ex.expanded, k),
              query_type |-> query_type, log |-> ex.log]
        ELSE IF ga.raised THEN Failed(query_type, ga.log)
        ELSE [raised |-> FALSE, error |-> "",
              sources |-> Take(MergeResults(ex.expanded, ga.graph_results), k),
              query_type |-> query_type, log |-> ga.log]

\* QueryEngine.query(query_text, top_k) for top_k >= 0, against the ranked
\* rows of the vector store and the graph: [raised, error, sources,
\* query_type, log]
Query(query, k, rows, graph, fail_at) ==
    LET query_type == ClassifyQuery(query)
        log1 == Called(<<>>, "embed_query", query)
        log2 == Called(log1, "hybrid_search", k)
        results == HybridSearch(rows, k)
        search_results == [i \in DOMAIN results |-> ToSearchResult(results[i])]
        ex == ExpandParents(search_results, results, rows, log2, fail_at)
        augment == query_type \in {"concept_explanation", "cross_book_comparison"}
        ga == GraphAugment(query, graph, ex.log, fail_at)
    IN  IF Raises(log1, fail_at) THEN Failed(query_type, log1)
        ELSE IF Raises(log2, fail_at) THEN Failed(query_type, log2)
        ELSE IF ex.raised THEN Failed(query_type, ex.log)
        ELSE IF ~augment
        THEN [raised |-> FALSE, error |-> "", sources |-> Take(ex.expanded, k),
              query_type |-> query_type, log |-> ex.log]
        ELSE IF ga.raised THEN Failed(query_type, ga.log)
        ELSE [raised |-> FALSE, error |-> "",
              sources |-> Take(MergeResults(ex.expanded, ga.graph_results), k),
              query_type |-> query_type, log |-> ga.log]

----------------------------------------------------------------------------
(* Bounded inputs: queries, stores and graphs of a query call *)

\* Queries of each type, with quoted terms, capitalized phrases, long
\* words or no candidate term at all
Queries ==
    { <<"C", "o", "m", "p", "a", "r", "e", " ", "\"", "A", "l", "p", "h", "a", "\"", " ", "x">>,
      <<"e", "x", "p", "l", "a", "i", "n", " ", "A", "l", "p", "h", "a">>,
      <<"w", "h", "a", "t", " ", "i", "s", " ", "a", "l", "p", "h", "a">>,
      <<"w", "h", "o", " ", "x">>,
      <<"x", " ", "x", " ", "x", " ", "x", " ", "x", " ", "x", " ", "x", " ", "x", " ", "x">>,
      <<"\"", "A", "l", "p", "h", "a", "\"", " ", "v", "s", " ", "\"", "G", "a", "m", "m", "a", "\"">>,
      <<"A", "l", "p", "h", "a">>,
      <<"A", "l", "p", "h", "a", " ", "B", "e", "t", "a", " ", "x", " ", "x", " ", "x", " ", "x", " ", "x", " ", "x", " ", "x">> }

Alpha == <<"A", "l", "p", "h", "a">>
Beta == <<"B", "e", "t", "a">>

\* Graphs: none, two entities with a relationship, an entity without any
Graphs ==
    { [entities |-> <<>>, relationships |-> <<>>],
      [entities |-> <<[key |-> Alpha,
                       entity |-> Entity(Alpha, <<"Concept">>, <<"d">>, <<"Test Book">>)],
                      [key |-> Beta,
                       entity |-> Entity(Beta, <<"Concept">>, <<>>, <<"Test Book">>)]>>,
       relationships |-> <<Relationship(Alpha, Beta, <<"EXTENDS">>)>>],
      [entities |-> <<[key |-> Alpha,
                       entity |-> Entity(Alpha, <<"Person">>, <<>>, <<>>)]>>,
       relationships |-> <<>>] }

\* list[::-1]
Reverse(list) == [i \in DOMAIN list |-> list[Len(list) + 1 - i]]

\* the stores a query runs against, ranked for the query
RankedStores ==
    UNION {{RowsAt(S), Reverse(RowsAt(S))} : S \in SUBSET (1..Len(StoreRows))}

MaxTopK == 3
MaxRaiseAt == 6

----------------------------------------------------------------------------
(* Specification SpecQuery: one QueryEngine.query call; the collaborator  *)
(* call number raise_at raises                                             *)

InitQuery ==
    /\ pc = "init"
    /\ query_text \in Queries
    /\ top_k \in 0..MaxTopK
    /\ corpus \in RankedStores
    /\ \E g \in Graphs : entities = g.entities /\ relationships = g.relationships
    /\ raise_at \in 0..MaxRaiseAt
    /\ response = <<>>
    /\ call_log = <<>>
    /\ fn_in = <<>>
    /\ fn_out = <<>>
    /\ ChunkUnused

\* engine.query(query_text, top_k)
QueryCall ==
    /\ pc = "init"
    /\ \E r \in {Query(query_text, top_k, corpus,
                       [entities |-> entities, relationships |-> relationships],
                       raise_at)} :
           /\ response' = [raised |-> r.raised, error |-> r.error,
                           sources |-> r.sources, query_type |-> r.query_type]
           /\ call_log' = r.log
    /\ pc' = "answered"
    /\ UNCHANGED <<query_text, top_k, corpus, entities, relationships, raise_at,
                   fn_in, fn_out>>
    /\ UNCHANGED chunkData

NextQuery == QueryCall

SpecQuery == InitQuery /\ [][NextQuery]_vars

----------------------------------------------------------------------------
(* Claims about QueryEngine.query (SpecQuery) *)

GraphOps == {"search_entity", "get_relationships"}

\* the calls of the log made to the collaborators `ops`
CallsTo(log, ops) == SelectSeq(log, LAMBDA c : c.op \in ops)

\* a retrieved row as a result, with the text of its parent ahead of its
\* own when it is no parent and names a row of the store
ExpandedRow(raw, rows) ==
    IF HasResolvableParent(raw, rows)
    THEN [ToSearchResult(raw) EXCEPT
            !.text = GetById(rows, raw.parent_id).text \o <<NL, "-", "-", "-", NL>>
                     \o raw.text]
    ELSE ToSearchResult(raw)

\* the parent-expanded results of the first top_k rows, in retrieval order
ExpandedVectorResults ==
    [i \in 1..(IF top_k < Len(corpus) THEN top_k ELSE Len(corpus)) |->
        ExpandedRow(corpus[i], corpus)]

\* C14: the graph store is called only for a query classified
\* concept_explanation or cross_book_comparison; for a query classified
\* fact_lookup it is never called and the returned sources are the
\* parent-expanded vector results in retrieval order.
C14_GraphOnlyForConceptQueries ==
    pc = "answered" =>
        /\ CallsTo(call_log, GraphOps) # <<>> =>
              response.query_type \in {"concept_explanation", "cross_book_comparison"}
        /\ response.query_type = "fact_lookup" =>
              /\ CallsTo(call_log, GraphOps) = <<>>
              /\ ~response.raised => response.sources = ExpandedVectorResults

\* a fact_lookup query that names an entity with relationships has
\* returned an expanded child, and the graph was not called
C14_Witness ==
    /\ pc = "answered"
    /\ response.query_type = "fact_lookup"
    /\ ~response.raised
    /\ GraphAugment(query_text, [entities |-> entities, relationships |-> relationships],
                    <<>>, 0).graph_results # <<>>
    /\ \E i \in DOMAIN response.sources :
          response.sources[i] # ToSearchResult(corpus[i])
    /\ Len(response.sources) >= 2

\* the graph results of the query: the results whose text is a graph summary
IsGraphResult(r) == Len(r.text) >= 1 /\ r.text[1] = "Knowledge Graph "

\* the fused list: the parent-expanded vector results, merged with the
\* graph results for a concept or comparison query
FusedList ==
    IF response.query_type \in {"concept_explanation", "cross_book_comparison"}
    THEN MergeResults(ExpandedVectorResults,
                      GraphAugment(query_text,
                                   [entities |-> entities, relationships |-> relationships],
                                   <<>>, 0).graph_results)
    ELSE ExpandedVectorResults

\* C15: the sources of a response are the first top_k elements of the
\* fused list: never more than top_k, and in the order of the fused list.
C15_SourcesAreFirstTopK ==
    pc = "answered" /\ ~response.raised =>
        /\ Len(response.sources) <= top_k
        /\ Len(response.sources) = IF top_k < Len(FusedList) THEN top_k ELSE Len(FusedList)
        /\ \A i \in DOMAIN response.sources : response.sources[i] = FusedList[i]

\* a fused list with a graph result, longer than top_k, has been cut
C15_Witness ==
    /\ pc = "answered"
    /\ ~response.raised
    /\ top_k >= 2
    /\ Len(FusedList) > top_k
    /\ \E i \in DOMAIN FusedList : IsGraphResult(FusedList[i])
    /\ Len(response.sources) = top_k

\* the position of the last call of the log to one of `ops`, 0 if none
LastCallTo(log, ops) ==
    LET S == {i \in DOMAIN log : log[i].op \in ops}
    IN  IF S = {} THEN 0 ELSE CHOOSE i \in S : \A j \in S : j <= i

\* the position of the first call of the log to one of `ops`, past the
\* end of the log if none
FirstCallTo(log, ops) ==
    LET S == {i \in DOMAIN log : log[i].op \in ops}
    IN  IF S = {} THEN Len(log) + 1 ELSE CHOOSE i \in S : \A j \in S : i <= j

\* C16: the collaborators are called in the order embed_query,
\* hybrid_search, parent lookups, graph lookups, embed_query and
\* hybrid_search once each; when a call raises, the query fails with its
\* error, the call is not made again and no later call is made.
C16_SequentialNoRetry ==
    pc = "answered" =>
        /\ call_log # <<>> /\ call_log[1].op = "embed_query"
        /\ Len(call_log) >= 2 => call_log[2].op = "hybrid_search"
        /\ Len(CallsTo(call_log, {"embed_query"})) = 1
        /\ Len(CallsTo(call_log, {"hybrid_search"})) <= 1
        /\ ~response.raised => Len(CallsTo(call_log, {"hybrid_search"})) = 1
        /\ LastCallTo(call_log, {"hybrid_search"}) < FirstCallTo(call_log, {"get_parent"})
        /\ LastCallTo(call_log, {"get_parent"}) < FirstCallTo(call_log, GraphOps)
        /\ response.raised <=> raise_at \in DOMAIN call_log
        /\ response.raised =>
              /\ Len(call_log) = raise_at
              /\ response.error = call_log[raise_at].op
              /\ response.sources = <<>>

\* a query whose parent lookups and first graph lookup returned has
\* failed in a later graph lookup
C16_Witness ==
    /\ pc = "answered"
    /\ response.raised
    /\ response.error = "get_relationships"
    /\ CallsTo(call_log, {"get_parent"}) # <<>>
    /\ Len(call_log) = raise_at

----------------------------------------------------------------------------
(* Re-ingestion (SpecIngest).  A later IngestFile of the same file is the *)
(* run with force=True: the filter of ingest.py:158 lets a file whose     *)
(* status is 'done' through only then.  No step of ingest_directory calls *)
(* VectorDatabase.delete_by_source; add_documents appends.                *)

\* C17: after a source file has been ingested, the vector store holds only
\* the chunks of its latest ingestion: every stored record of the file
\* carries the id of a chunk of the latest run, and the store holds no more
\* records of the file than the latest run produced chunks.
C17_ReingestionReplacesChunks ==
    pc = "done" =>
        /\ \A i \in DOMAIN records :
              \E j \in DOMAIN chunks : records[i].id = chunks[j].chunk_id
        /\ Len(records) <= Len(chunks)

----------------------------------------------------------------------------
(* Specification SpecSegments: _merge_by_similarity, _token_split and      *)
(* _create_parent_child, each applied to its arguments by an engine with   *)
(* working embeddings                                                      *)

MaxSentences == 4
MaxSplitChild == 4
MaxSplitWords == 9
MaxSegments == 4
MaxGroupParent == 4

\* Sentences of 1, 2, 3, 5 and 1 words: consecutive sentences are as
\* similar as the threshold, more, or less
SegmentSentences ==
    { <<"a", ".">>,
      <<"b", SP, "b", ".">>,
      <<"c", SP, "c", SP, "c", ".">>,
      <<"d", SP, "d", SP, "d", SP, "d", SP, "d", ".">>,
      <<"e", ".">> }

\* the words "1" .. "n", no two alike
NumberedWords(n) == [i \in 1..n |-> <<ToString(i)>>]

\* Settings() of tests/test_config.py: chunk_size_search 300,
\* chunk_size_parent 900, chunk_overlap 50
DefaultSettings == [child_size |-> 300, parent_size |-> 900, overlap |-> 50]

\* Segments of 0, 1, 2 and 3 words
GroupSegments ==
    { <<>>, <<"a">>, <<"b", SP, "b">>, <<"c", SP, "c", SP, "c">> }

\* the location arguments of _create_parent_child
SegmentLocation ==
    [source_file |-> <<"book.pdf">>, page_num |-> NoPage, chapter |-> <<>>,
     section |-> <<>>]

SegmentsUnused ==
    /\ text = <<>>
    /\ sections = <<>>
    /\ metadata = EmptyDict
    /\ embedding_model = TRUE
    /\ uuid_counter = 0
    /\ calls = 0
    /\ outcome = "none"
    /\ chunks = <<>>
    /\ prev_chunks = <<>>
    /\ prefix_chunk = NoChunk
    /\ prefix_out = <<>>
    /\ embed_texts = <<>>
    /\ records = <<>>
    /\ query_text = <<>>
    /\ top_k = 0
    /\ corpus = <<>>
    /\ entities = <<>>
    /\ relationships = <<>>
    /\ response = <<>>
    /\ call_log = <<>>
    /\ raise_at = 0
    /\ fn_out = <<>>

InitSegments ==
    /\ pc = "init"
    /\ embedder = "sim_words"
    /\ SegmentsUnused
    /\ \/ /\ settings = DefaultSettings
          /\ \E n \in 1..MaxSentences : \E ss \in [1..n -> SegmentSentences] :
                fn_in = [op |-> "merge_by_similarity", sentences |-> ss]
       \/ /\ \E c \in 1..MaxSplitChild : \E o \in 0..(c - 1) :
                settings = [child_size |-> c, parent_size |-> c, overlap |-> o]
          /\ \E n \in 0..MaxSplitWords : \E sep \in {<<SP>>, <<SP, NL>>} :
                fn_in = [op |-> "token_split",
                         text |-> Join(sep, NumberedWords(n))]
       \/ /\ \E p \in 1..MaxGroupParent : \E c \in {1, p} :
                settings = [child_size |-> c, parent_size |-> p, overlap |-> 0]
          /\ \E n \in 0..MaxSegments : \E segs \in [1..n -> GroupSegments] :
                fn_in = [op |-> "create_parent_child", segments |-> segs]

\* self._merge_by_similarity(sentences, embeddings) on the embeddings of
\* the sentences
MergeBySimilarityCall ==
    /\ pc = "init"
    /\ fn_in.op = "merge_by_similarity"
    /\ fn_out' = MergeBySimilarity(fn_in.sentences, Encode(fn_in.sentences).value)
    /\ pc' = "similarity_merged"
    /\ UNCHANGED <<query_text, top_k, corpus, entities, relationships, response,
                   call_log, raise_at, fn_in>>
    /\ UNCHANGED chunkData

\* self._token_split(text)
TokenSplitCall ==
    /\ pc = "init"
    /\ fn_in.op = "token_split"
    /\ fn_out' = TokenSplit(fn_in.text)
    /\ pc' = "token_split"
    /\ UNCHANGED <<query_text, top_k, corpus, entities, relationships, response,
                   call_log, raise_at, fn_in>>
    /\ UNCHANGED chunkData

\* self._create_parent_child(segments, source_file=...)
CreateParentChildCall ==
    /\ pc = "init"
    /\ fn_in.op = "create_parent_child"
    /\ fn_out' = CreateParentChild(fn_in.segments, SegmentLocation, uuid_counter)
    /\ pc' = "grouped"
    /\ UNCHANGED <<query_text, top_k, corpus, entities, relationships, response,
                   call_log, raise_at, fn_in>>
    /\ UNCHANGED chunkData

\* self._ensure_child_size(text), on the texts _token_split is applied to
EnsureChildSizeCall ==
    /\ pc = "init"
    /\ fn_in.op = "token_split"
    /\ fn_out' = EnsureChildSize(fn_in.text)
    /\ pc' = "child_sized"
    /\ UNCHANGED <<query_text, top_k, corpus, entities, relationships, response,
                   call_log, raise_at, fn_in>>
    /\ UNCHANGED chunkData

NextSegments ==
    \/ MergeBySimilarityCall
    \/ TokenSplitCall
    \/ EnsureChildSizeCall
    \/ CreateParentChildCall

SpecSegments == InitSegments /\ [][NextSegments]_vars

\* the k-th smallest element of the set S of numbers
Nth(S, k) == CHOOSE s \in S : Cardinality({x \in S : x < s}) = k - 1

\* the consecutive runs of `items` that start at position 1 and at the
\* positions of B
Runs(items, B) ==
    IF items = <<>> THEN <<>>
    ELSE LET starts == {1} \cup B
             count == Cardinality(starts)
         IN  [k \in 1..count |->
                 SubSeq(items, Nth(starts, k),
                        IF k = count THEN Len(items) ELSE Nth(starts, k + 1) - 1)]

\* the runs, each joined by single spaces
JoinedRuns(items, B) ==
    [k \in DOMAIN Runs(items, B) |-> Join(<<SP>>, Runs(items, B)[k])]

\* the similarity of sentence i - 1 and sentence i of the call
SimilarityAt(i) ==
    Dot(Encode(fn_in.sentences).value[i - 1], Encode(fn_in.sentences).value[i]).value

SplitWordsIn == Split(fn_in.text)

\* the words of the k-th window returned
WindowWords(k) == Split(fn_out[k])

\* the distance between the starts of two consecutive windows
WindowStep == settings.child_size - settings.overlap

\* the 0-based position in the text of the first word of the k-th window
WindowStart(k) == (k - 1) * WindowStep

\* C19: for a text of more than child_size words and overlap < child_size,
\* every window of _token_split has at most child_size words, every window
\* but the last has exactly child_size words and ends with the `overlap`
\* words the next window begins with, and the k-th window holds the words
\* of the text from position (k - 1) * (child_size - overlap) on, the last
\* window alone reaching the end of the text.
C19_WindowsOverlapExactly ==
    (pc = "token_split" /\ Len(SplitWordsIn) > settings.child_size
        /\ settings.overlap < settings.child_size) =>
        LET n == Len(SplitWordsIn)
            count == Len(fn_out)
        IN  /\ count >= 2
            /\ \A k \in 1..count : Len(WindowWords(k)) <= settings.child_size
            /\ \A k \in 1..(count - 1) :
                  /\ Len(WindowWords(k)) = settings.child_size
                  /\ Len(WindowWords(k + 1)) > settings.overlap
                  /\ SubSeq(WindowWords(k), WindowStep + 1, settings.child_size)
                       = SubSeq(WindowWords(k + 1), 1, settings.overlap)
                  /\ WindowStart(k) + settings.child_size < n
            /\ \A k \in 1..count :
                  WindowWords(k) =
                      SubSeq(SplitWordsIn, WindowStart(k) + 1,
                             IF k = count THEN n
                             ELSE WindowStart(k) + settings.child_size)
            /\ WindowStart(count) + settings.child_size >= n

\* a text split into three or more windows that overlap by two or more
\* words, the last window shorter than the others
C19_Witness ==
    /\ pc = "token_split"
    /\ settings.overlap >= 2
    /\ Len(fn_out) >= 3
    /\ Len(WindowWords(Len(fn_out))) < settings.child_size
    /\ Len(WindowWords(1)) = settings.child_size

\* the number of words of the i-th segment handed to _create_parent_child
SegmentWords(i) == Len(Split(fn_in.segments[i]))

RECURSIVE WordsBetween(_, _)
\* the number of words of the segments a .. b
WordsBetween(a, b) ==
    IF a > b THEN 0 ELSE SegmentWords(a) + WordsBetween(a + 1, b)

\* the running word count when segment i is met, for groups starting at
\* segment 1 and at the segments of B: the words of the segments of the
\* current group
RunningCount(B, i) ==
    WordsBetween(Max({1} \cup {b \in B : b < i}), i - 1)

\* the texts of the parent chunks returned, in order
ParentTexts ==
    LET parents == SelectSeq(fn_out.chunks, LAMBDA c : c.is_parent)
    IN  [k \in DOMAIN parents |-> parents[k].text]

\* C20: _create_parent_child groups the segments into consecutive runs in
\* input order, a new group starting at a segment exactly when the current
\* group is not empty and its running word count plus the words of the
\* segment exceeds parent_size; the parent chunks are, in order, one per
\* group, the text of each the space-joined segments of its group.
C20_GroupsCloseAboveParentSize ==
    pc = "grouped" =>
        \E B \in SUBSET (2..Len(fn_in.segments)) :
            /\ \A i \in 1..Len(fn_in.segments) :
                  i \in B <=> /\ i > 1
                              /\ RunningCount(B, i) + SegmentWords(i)
                                     > settings.parent_size
            /\ ParentTexts = JoinedRuns(fn_in.segments, B)

\* segments grouped into two or more parents, one group filled to exactly
\* parent_size by its second segment
C20_Witness ==
    /\ pc = "grouped"
    /\ Len(ParentTexts) >= 2
    /\ Len(fn_in.segments) >= 3
    /\ SegmentWords(1) >= 1
    /\ SegmentWords(1) + SegmentWords(2) = settings.parent_size
    /\ ParentTexts[1] = fn_in.segments[1] \o <<SP>> \o fn_in.segments[2]

----------------------------------------------------------------------------
(* _ensure_child_size against _token_split (SpecSegments) *)

\* C21: _ensure_child_size and _token_split return the same list for the
\* same text and settings, and every child chunk of _create_parent_child
\* has at most child_size words, also when a segment is longer than
\* child_size.
C21_EnsureChildSizeIsTokenSplit ==
    /\ pc = "token_split" => fn_out = EnsureChildSize(fn_in.text)
    /\ pc = "child_sized" =>
          /\ fn_out = TokenSplit(fn_in.text)
          /\ Len(Split(fn_in.text)) > settings.child_size =>
                \A k \in DOMAIN fn_out : Len(Split(fn_out[k])) <= settings.child_size
    /\ pc = "grouped" =>
          \A k \in DOMAIN fn_out.chunks :
              ~fn_out.chunks[k].is_parent =>
                  Len(Split(fn_out.chunks[k].text)) <= settings.child_size

\* _ensure_child_size has cut a text into three or more overlapping parts
C21_Witness ==
    /\ pc = "child_sized"
    /\ settings.overlap >= 1
    /\ Len(fn_out) >= 3
    /\ Len(Split(fn_in.text)) > settings.child_size

----------------------------------------------------------------------------
(* Specification SpecOrder: chunk_document on documents no two words of    *)
(* which are alike, so that the place of a chunk in the document shows     *)

\* Blocks of the documents: a chapter heading, a section heading, sentences
\* that merge, a line with no sentence end, sentences that do not merge
OrderBlocks ==
    { <<"#", SP, "H">>,
      <<"#", "#", SP, "S">>,
      <<"b", ".", SP, "c", SP, "d", ".", SP, "e", SP, "f", SP, "g", ".">>,
      <<"i", SP, "j", SP, "k">>,
      <<"l", ".", SP, "m", SP, "n", SP, "o", SP, "p", SP, "q", ".", SP, "r", ".">> }

MaxOrderBlocks == 3

\* t is a document of up to MaxOrderBlocks different blocks
IsOrderText(t) ==
    \E n \in 1..MaxOrderBlocks : \E ls \in [1..n -> OrderBlocks] :
        /\ \A i, j \in 1..n : i # j => ls[i] # ls[j]
        /\ t = Document(ls)

InitOrder ==
    /\ pc = "init"
    /\ IsOrderText(text)
    /\ metadata = [source_file |-> <<"test.pdf">>]
    /\ settings \in ValidSettings
    /\ embedder \in {"load_fails", "sim_words"}
    /\ embedding_model = FALSE
    /\ uuid_counter = 0
    /\ calls = 0
    /\ outcome = "none"
    /\ chunks = <<>>
    /\ prev_chunks = <<>>
    /\ sections = <<>>
    /\ prefix_chunk = NoChunk
    /\ prefix_out = <<>>
    /\ embed_texts = <<>>
    /\ records = <<>>
    /\ QueryUnused

SpecOrder == InitOrder /\ [][Next]_vars

\* the place of the word w in the list `words`
WordPosition(words, w) ==
    CHOOSE i \in DOMAIN words : words[i] = w

\* the places in the document of the first words of the chunks
FirstPositions(words) ==
    [i \in DOMAIN chunks |-> WordPosition(words, Split(chunks[i].text)[1])]

\* the places in the document of the last words of the chunks
LastPositions(words) ==
    [i \in DOMAIN chunks |->
        WordPosition(words, Split(chunks[i].text)[Len(Split(chunks[i].text))])]

\* the words of each section of the document
SectionWords ==
    [s \in DOMAIN SplitByStructure(text) |-> Split(SplitByStructure(text)[s].text)]

\* for each chunk, the section of the document that holds its first word
SectionIndexes(section_words) ==
    [i \in DOMAIN chunks |->
        CHOOSE s \in DOMAIN section_words :
            \E k \in DOMAIN section_words[s] :
                section_words[s][k] = Split(chunks[i].text)[1]]

\* the index of the parent chunk that last precedes chunk i
ParentBefore(i) ==
    Max({p \in 1..i : chunks[p].is_parent})

\* C22: the chunks returned by chunk_document are in document order: those
\* of an earlier section precede those of a later one, and each parent is
\* followed at once by its children, at least one, in the order of their
\* text in the document, before the next parent.
C22_ChunksInDocumentOrder ==
    (pc = "chunked" /\ outcome = "returned" /\ chunks # <<>>) =>
        \A n \in {Len(chunks)} :
        \A first \in {FirstPositions(Split(text))} :
        \A last \in {LastPositions(Split(text))} :
        \A sec \in {SectionIndexes(SectionWords)} :
            /\ chunks[1].is_parent
            /\ ~chunks[n].is_parent
            /\ \A i \in 1..(n - 1) : chunks[i].is_parent => ~chunks[i + 1].is_parent
            /\ \A i \in 1..n : \A j \in (i + 1)..n :
                  /\ sec[i] <= sec[j]
                  /\ (chunks[i].is_parent /\ chunks[j].is_parent) =>
                        (first[i] < first[j] /\ last[i] < last[j])
            /\ \A i \in 1..n :
                  ~chunks[i].is_parent =>
                      /\ chunks[i].parent_id = chunks[ParentBefore(i)].chunk_id
                      /\ chunks[i - 1].is_parent => first[i] = first[i - 1]
                      /\ ~chunks[i - 1].is_parent =>
                            (first[i - 1] < first[i] /\ last[i - 1] < last[i])
                      /\ (i = n \/ chunks[IF i = n THEN i ELSE i + 1].is_parent) =>
                            last[i] = last[ParentBefore(i)]

\* a document of two labelled sections has been chunked into three or more
\* parents, one of them with two or more children
C22_Witness ==
    /\ pc = "chunked"
    /\ outcome = "returned"
    /\ Cardinality({chunks[i].chapter : i \in DOMAIN chunks}) >= 2
    /\ Cardinality({i \in DOMAIN chunks : chunks[i].is_parent}) >= 3
    /\ \E i \in 2..(Len(chunks) - 1) :
          ~chunks[i].is_parent /\ ~chunks[i + 1].is_parent

----------------------------------------------------------------------------
(* Parent lookups of _expand_parents (SpecFusion) *)

\* the parent_ids the call looked up, in the order of the lookups
ParentLookups ==
    LET calls_made == CallsTo(fn_out.log, {"get_parent"})
    IN  [i \in DOMAIN calls_made |-> calls_made[i].arg]

\* the parent_ids of the results that are no parent and name one
NamedParents ==
    {fn_in.raw_results[i].parent_id : i \in
        {j \in DOMAIN fn_in.raw_results :
            /\ fn_in.raw_results[j].parent_id # NoParent
            /\ ~fn_in.raw_results[j].is_parent}}

\* C23: one _expand_parents call looks each distinct parent_id up at most
\* once, whether the lookup found a row or not, and only the parent_ids of
\* results that are no parent and have a parent_id; the lookups are never
\* more than the results.
C23_OneLookupPerParentId ==
    pc = "expanded" =>
        /\ \A i, j \in DOMAIN ParentLookups :
              ParentLookups[i] = ParentLookups[j] => i = j
        /\ Range(ParentLookups) = NamedParents
        /\ Len(ParentLookups) <= Len(fn_in.raw_results)

\* two of three results name the same parent, which the store does not
\* hold: it was looked up once
C23_Witness ==
    /\ pc = "expanded"
    /\ \E i, j \in DOMAIN fn_in.raw_results :
          /\ i # j
          /\ fn_in.raw_results[i].parent_id = fn_in.raw_results[j].parent_id
          /\ ~fn_in.raw_results[i].is_parent
          /\ ~fn_in.raw_results[j].is_parent
          /\ fn_in.raw_results[i].parent_id # NoParent
          /\ GetById(corpus, fn_in.raw_results[i].parent_id) = NoRecord
    /\ Len(ParentLookups) = 1
    /\ Len(fn_in.raw_results) = 3

----------------------------------------------------------------------------
(* Graph results after truncation (SpecQuery) *)

\* C26: when a query is classified concept_explanation or
\* cross_book_comparison, top_k is 1 or more and graph augmentation yields
\* a result, the sources returned hold at least one graph result.
C26_GraphResultStaysVisible ==
    (/\ pc = "answered"
     /\ ~response.raised
     /\ response.query_type \in {"concept_explanation", "cross_book_comparison"}
     /\ top_k >= 1
     /\ GraphAugment(query_text, [entities |-> entities, relationships |-> relationships],
                     <<>>, 0).graph_results # <<>>) =>
        \E i \in DOMAIN response.sources : IsGraphResult(response.sources[i])

----------------------------------------------------------------------------
(* Specification SpecAugment: _graph_augment applied to a query and a      *)
(* graph                                                                   *)

\* Pieces of a query: two quoted terms, a quoted term, two capitalized
\* words apart, a capitalized word, two words longer than 4 characters, a
\* short word
TermPieces ==
    { <<QUOTE, "A", "l", QUOTE, SP, QUOTE, "B", "e", QUOTE>>,
      <<QUOTE, "D", "e", "l", QUOTE>>,
      <<"G", "a", "m", ",", SP, "D", "e", "l", ",">>,
      <<"A", "l">>,
      <<"a", "l", "p", "h", "a", "s", SP, "g", "a", "m", "m", "a">>,
      <<"x">> }

MaxPieces == 4

\* q is a query of up to MaxPieces pieces with single spaces between them
IsAugmentQuery(q) ==
    \E n \in 0..MaxPieces : \E ps \in [1..n -> TermPieces] : q = Join(<<SP>>, ps)

Al == <<"A", "l">>
Gamma == <<"G", "a", "m", "m", "a">>
Del == <<"D", "e", "l">>

\* the relationships Al --[CITES]--> N1 .. N11
ManyRelationships == [i \in 1..11 |-> Relationship(Al, <<"N", ToString(i)>>, <<"CITES">>)]

\* Graphs: none; and one with an entity of 12 relationships, an entity
\* found by part of its key that is the target of one, and an entity
\* without any
AugmentGraphs ==
    { [entities |-> <<>>, relationships |-> <<>>],
      [entities |-> <<[key |-> Al,
                       entity |-> Entity(Al, <<"Concept">>, <<"d">>, <<"Test Book">>)],
                      [key |-> Gamma,
                       entity |-> Entity(Gamma, <<"Theory">>, <<>>, <<"Other Book">>)],
                      [key |-> Del,
                       entity |-> Entity(Del, <<"Person">>, <<>>, <<>>)]>>,
       relationships |-> <<Relationship(Al, Gamma, <<"EXTENDS">>)>> \o ManyRelationships] }

InitAugment ==
    /\ pc = "init"
    /\ IsAugmentQuery(query_text)
    /\ \E g \in AugmentGraphs : entities = g.entities /\ relationships = g.relationships
    /\ top_k = 0
    /\ corpus = <<>>
    /\ raise_at = 0
    /\ response = <<>>
    /\ call_log = <<>>
    /\ fn_in = <<>>
    /\ fn_out = <<>>
    /\ ChunkUnused

\* self._graph_augment(query_text)
GraphAugmentCall ==
    /\ pc = "init"
    /\ fn_out' = GraphAugment(query_text,
                              [entities |-> entities, relationships |-> relationships],
                              <<>>, raise_at)
    /\ pc' = "augmented"
    /\ UNCHANGED <<query_text, top_k, corpus, entities, relationships, response,
                   call_log, raise_at, fn_in>>
    /\ UNCHANGED chunkData

NextAugment == GraphAugmentCall

SpecAugment == InitAugment /\ [][NextAugment]_vars

\* the terms the call looked up, in the order of the lookups
EntityLookups ==
    LET calls_made == CallsTo(fn_out.log, {"search_entity"})
    IN  [i \in DOMAIN calls_made |-> calls_made[i].arg]

\* the words of the query longer than 4 characters
LongWords == SelectSeq(Split(query_text), LAMBDA w : Len(w) > 4)

AugmentedGraph == [entities |-> entities, relationships |-> relationships]

\* the entities with a relationship that the looked-up terms found
FoundEntities ==
    {e \in {SearchEntity(AugmentedGraph, EntityLookups[i]) : i \in DOMAIN EntityLookups}
              \ {NoRecord} :
        GetRelationships(AugmentedGraph, e.name) # <<>>}

\* the relationship lines of a graph result: its lines after the three of
\* the heading, the description and "Relationships:"
RelationshipLines(result) ==
    Len(SelectSeq(result.text, LAMBDA c : c = NL)) - 2

\* C25: _graph_augment returns one result for each found entity that has a
\* relationship, no two results for one entity, and none for a term that
\* finds no entity or an entity without relationships; each result has
\* score 0.5, the source book of its entity as provenance and at most 10
\* relationship lines, and the call does not raise.
C25_OneResultPerFoundEntity ==
    pc = "augmented" =>
        /\ ~fn_out.raised
        /\ Len(fn_out.graph_results) = Cardinality(FoundEntities)
        /\ \A i, j \in DOMAIN fn_out.graph_results :
              fn_out.graph_results[i].text = fn_out.graph_results[j].text => i = j
        /\ \A i \in DOMAIN fn_out.graph_results :
              /\ \E e \in FoundEntities :
                    /\ fn_out.graph_results[i].text =
                           GraphText(e, GetRelationships(AugmentedGraph, e.name))
                    /\ fn_out.graph_results[i].source_file = e.source_book
                    /\ fn_out.graph_results[i].book_title = e.source_book
              /\ fn_out.graph_results[i].score = 50
              /\ RelationshipLines(fn_out.graph_results[i]) <= 10

----------------------------------------------------------------------------
(* KnowledgeGraph.add_entity, add_relationship, add_triplets,              *)
(* remove_entity, clear.  A graph is [entities, relationships]: `entities` *)
(* is the dict as the list of [key, entity] in insertion order.            *)

\* the keys of the entities dict
EntityKeys(graph) == {graph.entities[j].key : j \in DOMAIN graph.entities}

\* self.entities[key] = entity
SetEntity(graph, key, entity) ==
    IF key \in EntityKeys(graph)
    THEN [graph EXCEPT !.entities =
             [j \in DOMAIN @ |-> IF @[j].key = key
                                 THEN [key |-> key, entity |-> entity] ELSE @[j]]]
    ELSE [graph EXCEPT !.entities = Append(@, [key |-> key, entity |-> entity])]

\* KnowledgeGraph.add_entity(entity)
AddEntity(graph, entity) == SetEntity(graph, entity.name, entity)

\* KnowledgeGraph.add_relationship(rel)
AddRelationship(graph, rel) ==
    [graph EXCEPT !.relationships = Append(@, rel)]

\* Triplet(subject, predicate, object, source_file)
Triplet(subject, predicate, object, source_file) ==
    [subject |-> subject, predicate |-> predicate, object |-> object,
     source_file |-> source_file]

\* the body of `for t in triplets`
AddTriplet(graph, t) ==
    LET g1 == IF t.subject \notin EntityKeys(graph)
              THEN SetEntity(graph, t.subject,
                             Entity(t.subject, <<"Concept">>, <<>>, t.source_file))
              ELSE graph
        g2 == IF t.object \notin EntityKeys(g1)
              THEN SetEntity(g1, t.object,
                             Entity(t.object, <<"Concept">>, <<>>, t.source_file))
              ELSE g1
    IN  [g2 EXCEPT !.relationships =
            Append(@, Relationship(t.subject, t.object, t.predicate))]

RECURSIVE AddTriplets(_, _)
\* KnowledgeGraph.add_triplets(triplets)
AddTriplets(graph, triplets) ==
    IF triplets = <<>> THEN graph
    ELSE AddTriplets(AddTriplet(graph, Head(triplets)), Tail(triplets))

\* KnowledgeGraph.remove_entity(name): the graph and the value returned
RemoveEntity(graph, name) ==
    IF name \notin EntityKeys(graph) THEN [graph |-> graph, result |-> FALSE]
    ELSE [graph |->
             [entities |-> SelectSeq(graph.entities, LAMBDA e : e.key # name),
              relationships |->
                  SelectSeq(graph.relationships,
                            LAMBDA r : r.source # name /\ r.target # name)],
          result |-> TRUE]

\* KnowledgeGraph.clear()
Clear(graph) == [entities |-> <<>>, relationships |-> <<>>]

----------------------------------------------------------------------------
(* Specification SpecGraph: operations on one KnowledgeGraph, opened on an *)
(* empty store                                                             *)

GraphNames == {<<"A">>, <<"B">>}

MaxRelationships == 3
MaxTriplets == 2

InitGraph ==
    /\ pc = "init"
    /\ entities = <<>>
    /\ relationships = <<>>
    /\ query_text = <<>>
    /\ top_k = 0
    /\ corpus = <<>>
    /\ raise_at = 0
    /\ response = <<>>
    /\ call_log = <<>>
    /\ fn_in = <<>>
    /\ fn_out = <<>>
    /\ ChunkUnused

\* the graph held by the object
StoredGraph == [entities |-> entities, relationships |-> relationships]

\* graph.add_entity(Entity(name, entity_type))
AddEntityCall ==
    /\ \E name \in GraphNames, entity_type \in {<<"Concept">>, <<"Person">>} :
       \E g \in {AddEntity(StoredGraph, Entity(name, entity_type, <<>>, <<>>))} :
          entities' = g.entities /\ relationships' = g.relationships
    /\ pc' = "add_entity"
    /\ UNCHANGED <<query_text, top_k, corpus, response, call_log, raise_at, fn_in,
                   fn_out>>
    /\ UNCHANGED chunkData

\* graph.add_relationship(Relationship(source, target, "RELATED_TO"))
AddRelationshipCall ==
    /\ Len(relationships) < MaxRelationships
    /\ \E source \in GraphNames, target \in GraphNames :
       \E g \in {AddRelationship(StoredGraph,
                                 Relationship(source, target, <<"RELATED_TO">>))} :
          entities' = g.entities /\ relationships' = g.relationships
    /\ pc' = "add_relationship"
    /\ UNCHANGED <<query_text, top_k, corpus, response, call_log, raise_at, fn_in,
                   fn_out>>
    /\ UNCHANGED chunkData

\* graph.add_triplets([Triplet(subject, "EXTENDS", object, source_file), ...])
AddTripletsCall ==
    /\ \E n \in 0..MaxTriplets :
          /\ Len(relationships) + n <= MaxRelationships
          /\ \E ts \in [1..n -> {Triplet(s, <<"EXTENDS">>, o, <<"book.pdf">>) :
                                    s \in GraphNames, o \in GraphNames}] :
             \E g \in {AddTriplets(StoredGraph, ts)} :
                entities' = g.entities /\ relationships' = g.relationships
    /\ pc' = "add_triplets"
    /\ UNCHANGED <<query_text, top_k, corpus, response, call_log, raise_at, fn_in,
                   fn_out>>
    /\ UNCHANGED chunkData

\* graph.remove_entity(name)
RemoveEntityCall ==
    /\ \E name \in GraphNames :
       \E r \in {RemoveEntity(StoredGraph, name)} :
          /\ entities' = r.graph.entities
          /\ relationships' = r.graph.relationships
          /\ fn_out' = r.result
    /\ pc' = "remove_entity"
    /\ UNCHANGED <<query_text, top_k, corpus, response, call_log, raise_at, fn_in>>
    /\ UNCHANGED chunkData

\* graph.clear()
ClearCall ==
    /\ entities' = Clear(StoredGraph).entities
    /\ relationships' = Clear(StoredGraph).relationships
    /\ pc' = "clear"
    /\ UNCHANGED <<query_text, top_k, corpus, response, call_log, raise_at, fn_in,
                   fn_out>>
    /\ UNCHANGED chunkData

NextGraph ==
    \/ AddEntityCall
    \/ AddRelationshipCall
    \/ AddTripletsCall
    \/ RemoveEntityCall
    \/ ClearCall

SpecGraph == InitGraph /\ [][NextGraph]_vars

\* C27: after any sequence of add_entity, add_relationship, add_triplets,
\* remove_entity and clear, the source and the target of every stored
\* relationship name an entity of the graph.
C27_EndpointsNameEntities ==
    \A i \in DOMAIN relationships :
        /\ relationships[i].source \in EntityKeys(StoredGraph)
        /\ relationships[i].target \in EntityKeys(StoredGraph)

----------------------------------------------------------------------------
(* Specification SpecWindows: the window loop of _token_split and of       *)
(* _ensure_child_size, one pass at a time, under every chunk_size_search   *)
(* and chunk_overlap Settings accepts (any integers: the fields carry no   *)
(* validator).  fn_out holds `start` and the windows appended so far.      *)

MaxLoopChild == 2
MaxLoopOverlap == 2
MaxLoopWords == 3
MaxIterations == 4

\* list[a:b] of Python, for any integers a and b
Slice(list, a, b) ==
    LET n == Len(list)
        clamp(i) == IF i < 0 THEN (IF n + i < 0 THEN 0 ELSE n + i)
                    ELSE IF i > n THEN n ELSE i
    IN  SubSeq(list, clamp(a) + 1, clamp(b))

InitWindows ==
    /\ pc = "init"
    /\ \E c \in (0 - 1)..MaxLoopChild, o \in (0 - 1)..MaxLoopOverlap :
          settings = [child_size |-> c, parent_size |-> 900, overlap |-> o]
    /\ \E op \in {"token_split", "ensure_child_size"} : \E n \in 0..MaxLoopWords :
          fn_in = [op |-> op, text |-> Join(<<SP>>, NumberedWords(n))]
    /\ embedder = "sim_words"
    /\ SegmentsUnused

\* `words = text.split()`, `if len(words) <= self.child_size: return [text]`,
\* else `start = 0`
WindowLoopEnter ==
    /\ pc = "init"
    /\ IF Len(Split(fn_in.text)) <= settings.child_size
       THEN fn_out' = [start |-> 0, parts |-> <<fn_in.text>>] /\ pc' = "returned"
       ELSE fn_out' = [start |-> 0, parts |-> <<>>] /\ pc' = "loop"
    /\ UNCHANGED <<query_text, top_k, corpus, entities, relationships, response,
                   call_log, raise_at, fn_in>>
    /\ UNCHANGED chunkData

\* one pass of `while start < len(words)`
WindowLoopPass ==
    /\ pc = "loop"
    /\ fn_out.start < Len(Split(fn_in.text))
    /\ Len(fn_out.parts) < MaxIterations
    /\ \E words \in {Split(fn_in.text)} :
       \E end \in {IF fn_out.start + settings.child_size < Len(words)
                   THEN fn_out.start + settings.child_size ELSE Len(words)} :
          fn_out' = [start |-> IF end < Len(words) THEN end - settings.overlap ELSE end,
                     parts |-> Append(fn_out.parts,
                                      Join(<<SP>>, Slice(words, fn_out.start, end)))]
    /\ pc' = "loop"
    /\ UNCHANGED <<query_text, top_k, corpus, entities, relationships, response,
                   call_log, raise_at, fn_in>>
    /\ UNCHANGED chunkData

\* the loop condition fails: `return segments` / `return parts`
WindowLoopReturn ==
    /\ pc = "loop"
    /\ ~(fn_out.start < Len(Split(fn_in.text)))
    /\ pc' = "returned"
    /\ UNCHANGED <<query_text, top_k, corpus, entities, relationships, response,
                   call_log, raise_at, fn_in, fn_out>>
    /\ UNCHANGED chunkData

NextWindows == WindowLoopEnter \/ WindowLoopPass \/ WindowLoopReturn

SpecWindows == InitWindows /\ [][NextWindows]_vars

\* C28: for every child_size and overlap Settings accepts, each pass of
\* the window loop of _token_split and _ensure_child_size leaves `start`
\* strictly after the start of the window it appended, so the loop ends.
C28_WindowStartAdvances ==
    [][(pc = "loop" /\ pc' = "loop") => fn_out'.start > fn_out.start]_vars

----------------------------------------------------------------------------
(* Size of the parent chunks of _create_parent_child (SpecSegments) *)

\* the sets of group starts that give the parent texts returned
ParentBoundaries ==
    {B \in SUBSET (2..Len(fn_in.segments)) :
        ParentTexts = JoinedRuns(fn_in.segments, B)}

\* C29: a parent chunk built from two or more segments has at most
\* parent_size words; a parent chunk has more than parent_size words only
\* when it is a single segment that is itself longer than parent_size.
C29_ParentWithinParentSize ==
    (pc = "grouped" /\ fn_in.segments # <<>>) =>
        /\ ParentBoundaries # {}
        /\ \A B \in ParentBoundaries :
           \A k \in DOMAIN ParentTexts :
           \A group \in {Runs(fn_in.segments, B)[k]} :
              /\ Len(group) >= 2 => Len(Split(ParentTexts[k])) <= settings.parent_size
              /\ Len(Split(ParentTexts[k])) > settings.parent_size =>
                    (Len(group) = 1 /\ Len(Split(group[1])) > settings.parent_size)

\* a parent of two segments filled to parent_size, and a parent of one
\* segment longer than parent_size
C29_Witness ==
    /\ pc = "grouped"
    /\ \E B \in ParentBoundaries :
          /\ \E k \in DOMAIN ParentTexts :
                /\ Len(Runs(fn_in.segments, B)[k]) = 2
                /\ Len(Split(ParentTexts[k])) = settings.parent_size
          /\ \E k \in DOMAIN ParentTexts :
                /\ Len(Runs(fn_in.segments, B)[k]) = 1
                /\ Len(Split(ParentTexts[k])) > settings.parent_size

----------------------------------------------------------------------------
(* Heading lines and segment texts (SpecSplit) *)

\* C30: no segment returned by _split_by_structure contains a heading line
\* in its text, for every document, one made of heading lines only included.
C30_NoHeadingLineInSegments ==
    pc = "split" =>
        \A j \in DOMAIN sections : FindIter(sections[j].text, 1) = <<>>

====
